---- MODULE Spec2Model ----
(***************************************************************************)
(* Model of the benchmark-log parsers of EasyExtensions.Crypto.Tests.Charts *)
(* (charts.py: parse_mylib_results, parse_openssl_results, main;            *)
(* test_parser.py: parse_test_results; simple_charts.py: main;              *)
(* all_charts.py: main, run_selected).  A text is a sequence of             *)
(* one-character strings; the regular expressions of the source are         *)
(* evaluated on it the way Python's re module evaluates them (leftmost      *)
(* match, greedy runs, lazy body, non-overlapping findall).                 *)
(***************************************************************************)
EXTENDS Integers, Sequences, FiniteSets, TLC

VARIABLES file, pc, enc_df, dec_df, error, calls,
          ossl_file, ossl_df, present, status, out,
          argv, stdin, sets, ran

vars == <<file, pc, enc_df, dec_df, error, calls,
          ossl_file, ossl_df, present, status, out,
          argv, stdin, sets, ran>>

\* the state of the all_charts.py launcher: its command line, the line it
\* reads from the menu prompt, the list handed to run_selected and the
\* generators started so far
cliVars == <<argv, stdin, sets, ran>>

\* a process that is not the launcher
NoCli ==
    /\ argv = {}
    /\ stdin = [eof |-> TRUE, line |-> <<>>]
    /\ sets = <<>>
    /\ ran = <<>>

(***************************************************************************)
(* Bounds of the model.                                                     *)
(***************************************************************************)
\* longest section body, in lines, of an input file
MaxRows == 2
\* most spaces written on each side of a pipe by the generated rows
MaxPad == 1
\* most parser invocations of one process in SpecSeq
MaxCalls == 3
\* most lines of a freely composed OpenSSL log
MaxLines == 2

(***************************************************************************)
(* Character classes of Python's re: \d, \s and the class [\d.]             *)
(***************************************************************************)
DigitChars == <<"0", "1", "2", "3", "4", "5", "6", "7", "8", "9">>

Digit == {DigitChars[i] : i \in 1..10}

Space == {" ", "\n", "\t", "\r"}

NumCh == Digit \cup {"."}

\* end of the greedy run of characters of class cls that starts at i:
\* the first position >= i that holds no character of cls
RunEnd(s, i, cls) ==
    CHOOSE j \in i..(Len(s) + 1) :
        /\ \A k \in i..(j - 1) : s[k] \in cls
        /\ (j = Len(s) + 1 \/ s[j] \notin cls)

\* the literal lit occurs in s at position i
LitAt(s, i, lit) ==
    /\ i + Len(lit) - 1 <= Len(s)
    /\ \A k \in 1..Len(lit) : s[i + k - 1] = lit[k]

Slice(s, from, to) == [k \in 1..(to - from) |-> s[from + k - 1]]

(***************************************************************************)
(* Section search, charts.py:34-35                                          *)
(*   ===\s*<NAME> THREAD/CHUNK SWEEP\s*===(.*?)(?===|\Z)   with re.DOTALL   *)
(***************************************************************************)
EncName ==
    <<"E", "N", "C", "R", "Y", "P", "T", "I", "O", "N", " ", "T", "H", "R", "E", "A", "D", "/", "C", "H", "U", "N", "K", " ", "S", "W", "E", "E", "P">>

DecName ==
    <<"D", "E", "C", "R", "Y", "P", "T", "I", "O", "N", " ", "T", "H", "R", "E", "A", "D", "/", "C", "H", "U", "N", "K", " ", "S", "W", "E", "E", "P">>

Bars == <<"=", "=", "=">>

\* the lookahead of the section pattern, (?===|\Z): two '=' characters
Lookahead == <<"=", "=">>

\* position just after the header  ===\s*name\s*===  matched at i, 0 if none
HeaderEnd(s, i, name) ==
    IF ~LitAt(s, i, Bars) THEN 0
    ELSE LET n == RunEnd(s, i + 3, Space) IN
         IF ~LitAt(s, n, name) THEN 0
         ELSE LET b == RunEnd(s, n + Len(name), Space) IN
              IF LitAt(s, b, Bars) THEN b + 3 ELSE 0

\* (.*?)(?===|\Z): the lazy body stops at the first position where the
\* lookahead succeeds
BodyEnd(s, from) ==
    CHOOSE j \in from..(Len(s) + 1) :
        /\ (j = Len(s) + 1 \/ LitAt(s, j, Lookahead))
        /\ \A k \in from..(j - 1) : ~LitAt(s, k, Lookahead)

\* a search that returns the rightmost header
search_last(s, name) ==
    LET starts == {i \in 1..Len(s) : HeaderEnd(s, i, name) # 0} IN
    IF starts = {} THEN [found |-> FALSE, body |-> <<>>]
    ELSE LET i == CHOOSE x \in starts : \A y \in starts : x >= y
             b == HeaderEnd(s, i, name)
         IN [found |-> TRUE, body |-> Slice(s, b, BodyEnd(s, b))]

\* re.search: the leftmost header; None is [found |-> FALSE]
search(s, name) ==
    LET starts == {i \in 1..Len(s) : HeaderEnd(s, i, name) # 0} IN
    IF starts = {} THEN [found |-> FALSE, body |-> <<>>]
    ELSE LET i == CHOOSE x \in starts : \A y \in starts : x <= y
             b == HeaderEnd(s, i, name)
         IN [found |-> TRUE, body |-> Slice(s, b, BodyEnd(s, b))]

(***************************************************************************)
(* Row pattern, charts.py:42     (\d+)\s*\|\s*([\d.]+)\s*\|\s*([\d.]+)      *)
(***************************************************************************)
NoMatch == [ok |-> FALSE, th |-> <<>>, ch |-> <<>>, thr |-> <<>>, end |-> 0]

\* pat with the chunk size as (\d+), the pattern of the legacy parser
pat_intchunk(s, i) ==
    LET d1 == RunEnd(s, i, Digit)
        p1 == RunEnd(s, d1, Space)
    IN
    IF d1 = i \/ ~LitAt(s, p1, <<"|">>) THEN NoMatch
    ELSE
    LET n2 == RunEnd(s, p1 + 1, Space)
        e2 == RunEnd(s, n2, Digit)
        p2 == RunEnd(s, e2, Space)
    IN
    IF e2 = n2 \/ ~LitAt(s, p2, <<"|">>) THEN NoMatch
    ELSE
    LET n3 == RunEnd(s, p2 + 1, Space)
        e3 == RunEnd(s, n3, NumCh)
    IN
    IF e3 = n3 THEN NoMatch
    ELSE [ok |-> TRUE, th |-> Slice(s, i, d1), ch |-> Slice(s, n2, e2),
          thr |-> Slice(s, n3, e3), end |-> e3]

\* pat with a signed thread count, (-?\d+)
pat_signed(s, i) ==
    LET i1 == IF LitAt(s, i, <<"-">>) THEN i + 1 ELSE i
        d1 == RunEnd(s, i1, Digit)
        p1 == RunEnd(s, d1, Space)
    IN
    IF d1 = i1 \/ ~LitAt(s, p1, <<"|">>) THEN NoMatch
    ELSE
    LET n2 == RunEnd(s, p1 + 1, Space)
        e2 == RunEnd(s, n2, NumCh)
        p2 == RunEnd(s, e2, Space)
    IN
    IF e2 = n2 \/ ~LitAt(s, p2, <<"|">>) THEN NoMatch
    ELSE
    LET n3 == RunEnd(s, p2 + 1, Space)
        e3 == RunEnd(s, n3, NumCh)
    IN
    IF e3 = n3 THEN NoMatch
    ELSE [ok |-> TRUE, th |-> Slice(s, i, d1), ch |-> Slice(s, n2, e2),
          thr |-> Slice(s, n3, e3), end |-> e3]

\* pat.match at position i.  Every run is followed by a character outside
\* its class, so only the greedy (longest) run can lead to a match.
pat(s, i) ==
    LET d1 == RunEnd(s, i, Digit)
        p1 == RunEnd(s, d1, Space)
    IN
    IF d1 = i \/ ~LitAt(s, p1, <<"|">>) THEN NoMatch
    ELSE
    LET n2 == RunEnd(s, p1 + 1, Space)
        e2 == RunEnd(s, n2, NumCh)
        p2 == RunEnd(s, e2, Space)
    IN
    IF e2 = n2 \/ ~LitAt(s, p2, <<"|">>) THEN NoMatch
    ELSE
    LET n3 == RunEnd(s, p2 + 1, Space)
        e3 == RunEnd(s, n3, NumCh)
    IN
    IF e3 = n3 THEN NoMatch
    ELSE [ok |-> TRUE, th |-> Slice(s, i, d1), ch |-> Slice(s, n2, e2),
          thr |-> Slice(s, n3, e3), end |-> e3]

\* findall that puts each match in front of the earlier ones
RECURSIVE findall_rev(_, _)
findall_rev(s, i) ==
    IF i > Len(s) THEN <<>>
    ELSE LET m == pat(s, i) IN
         IF m.ok THEN findall_rev(s, m.end) \o <<m>>
         ELSE findall_rev(s, i + 1)

\* pat.findall: non-overlapping matches, scanning left to right
RECURSIVE findall(_, _)
findall(s, i) ==
    IF i > Len(s) THEN <<>>
    ELSE LET m == pat(s, i) IN
         IF m.ok THEN <<m>> \o findall(s, m.end)
         ELSE findall(s, i + 1)

(***************************************************************************)
(* Conversions, charts.py:46-48.  A float is kept as the exact decimal it   *)
(* denotes, mantissa m and scale s (value m / 10^s), in lowest terms: two   *)
(* spellings are equal floats exactly when they give the same pair.         *)
(***************************************************************************)
DigitVal(c) == CHOOSE n \in 0..9 : DigitChars[n + 1] = c

RECURSIVE DigitsVal(_)
DigitsVal(ds) ==
    IF ds = <<>> THEN 0
    ELSE 10 * DigitsVal(SubSeq(ds, 1, Len(ds) - 1)) + DigitVal(ds[Len(ds)])

\* int(th): the digits in base ten, after an optional sign
int(str) ==
    IF str # <<>> /\ str[1] = "-" THEN 0 - DigitsVal(Tail(str))
    ELSE IF str # <<>> /\ str[1] = "+" THEN DigitsVal(Tail(str))
    ELSE DigitsVal(str)

RECURSIVE Normal(_, _)
Normal(m, s) ==
    IF s > 0 /\ m % 10 = 0 THEN Normal(m \div 10, s - 1)
    ELSE [m |-> m, s |-> s]

Dots(str) == {k \in 1..Len(str) : str[k] = "."}

\* float(str) raises ValueError unless str holds a digit and at most one dot
FloatRaises(str) ==
    \/ Cardinality(Dots(str)) > 1
    \/ Cardinality(Dots(str)) = Len(str)

\* float that loses the decimal point
float_nodot(str) ==
    LET digits == SelectSeq(str, LAMBDA c : c # ".")
    IN Normal(DigitsVal(digits), 0)

float(str) ==
    LET dot == IF Dots(str) = {} THEN Len(str) + 1
               ELSE CHOOSE k \in Dots(str) : TRUE
        digits == SubSeq(str, 1, dot - 1) \o SubSeq(str, dot + 1, Len(str))
        scale == IF Dots(str) = {} THEN 0 ELSE Len(str) - dot
    IN Normal(DigitsVal(digits), scale)

(***************************************************************************)
(* extract, charts.py:37-50                                                 *)
(***************************************************************************)
Columns == <<"Threads", "ChunkMB", "Throughput">>

\* a frame that keeps one row per (Threads, ChunkMB) pair, the first met
DataFrame_dedup(rows) ==
    LET first(k) == \A j \in 1..(k - 1) :
                        \/ rows[j].Threads # rows[k].Threads
                        \/ rows[j].ChunkMB # rows[k].ChunkMB
        keep == {k \in 1..Len(rows) : first(k)}
        RECURSIVE pick(_)
        pick(k) == IF k > Len(rows) THEN <<>>
                   ELSE (IF k \in keep THEN <<rows[k]>> ELSE <<>>) \o pick(k + 1)
    IN [columns |-> IF rows = <<>> THEN <<>> ELSE Columns, rows |-> pick(1)]

\* pd.DataFrame(columns=[...]) and pd.DataFrame(rows); an empty rows list
\* gives a frame without columns
DataFrame(rows) ==
    [columns |-> IF rows = <<>> THEN <<>> ELSE Columns, rows |-> rows]

EmptyFrame == [columns |-> Columns, rows |-> <<>>]

Row(m) ==
    [Threads |-> int(m.th), ChunkMB |-> float(m.ch), Throughput |-> float(m.thr)]

\* extract without the guard for an absent section: group(1) of None raises
extract_noguard(section) ==
    LET ms == findall(section.body, 1) IN
    IF ~section.found
          \/ \E k \in 1..Len(ms) : FloatRaises(ms[k].ch) \/ FloatRaises(ms[k].thr)
    THEN [raised |-> TRUE, df |-> DataFrame(<<>>)]
    ELSE [raised |-> FALSE, df |-> DataFrame([k \in 1..Len(ms) |-> Row(ms[k])])]

\* extract whose rows list outlives the call: it starts from the rows of
\* the encryption table returned before
extract_stale(section) ==
    IF ~section.found THEN [raised |-> FALSE, df |-> EmptyFrame]
    ELSE
    LET ms == findall(section.body, 1) IN
    IF \E k \in 1..Len(ms) : FloatRaises(ms[k].ch) \/ FloatRaises(ms[k].thr)
    THEN [raised |-> TRUE, df |-> DataFrame(<<>>)]
    ELSE [raised |-> FALSE,
          df |-> DataFrame(enc_df.rows \o [k \in 1..Len(ms) |-> Row(ms[k])])]

\* the result of extract: the frame, or raised = TRUE when a float() raised
extract(section) ==
    IF ~section.found THEN [raised |-> FALSE, df |-> EmptyFrame]
    ELSE
    LET ms == findall(section.body, 1) IN
    IF \E k \in 1..Len(ms) : FloatRaises(ms[k].ch) \/ FloatRaises(ms[k].thr)
    THEN [raised |-> TRUE, df |-> DataFrame(<<>>)]
    ELSE [raised |-> FALSE, df |-> DataFrame([k \in 1..Len(ms) |-> Row(ms[k])])]

\* parse_mylib_results on the text read from the file, charts.py:32-54:
\* extract runs for the encryption section first; an exception of either
\* extract leaves the function without a result
parse_mylib_results(text) ==
    LET enc_sec == search(text, EncName)
        dec_sec == search(text, DecName)
        enc == extract(enc_sec)
        dec == extract(dec_sec)
    IN [raised |-> enc.raised \/ dec.raised, enc |-> enc.df, dec |-> dec.df]

(***************************************************************************)
(* Input files.  A file is written as an optional encryption header with    *)
(* the lines after it, an optional decryption header with the lines after   *)
(* it, and an optional trailing section of another kind.                    *)
(***************************************************************************)
EncHeader == Bars \o <<" ">> \o EncName \o <<" ">> \o Bars

DecHeader == Bars \o <<" ">> \o DecName \o <<" ">> \o Bars

OtherHeader ==
    <<"=", "=", "=", " ", "S", "U", "M", "M", "A", "R", "Y", " ", "=", "=", "=">>

RowA ==
    <<"1", " ", "|", " ", "4", " ", "|", " ", "1", "2", "0", ".", "5">>

RowB ==
    <<"2", " ", "|", " ", "4", " ", "|", " ", "2", "3", "0", ".", "1">>

RowC ==
    <<"1", " ", "|", " ", "4", " ", "|", " ", "1", "5", "0", ".", "0">>

RowTight ==
    <<"2", "|", "0", ".", "5", "|", "3", "1", "0">>

LoneDot ==
    <<"1", " ", "|", " ", ".", " ", "|", " ", "3">>

TwoDots ==
    <<"1", " ", "|", " ", "1", ".", "2", ".", "3", " ", "|", " ", "3">>

DecimalThreads ==
    <<"1", ".", "5", " ", "|", " ", "4", " ", "|", " ", "1", "0", "0">>

NonNumeric ==
    <<"x", " ", "|", " ", "4", " ", "|", " ", "1", "0", "0">>

Truncated ==
    <<"3", " ", "|">>

TwoOnLine ==
    <<"1", " ", "|", " ", "2", " ", "|", " ", "3", " ", "4", " ", "|", " ", "5", " ", "|", " ", "6">>

Note ==
    <<"a", " ", "=", "=", " ", "b">>

ZeroRow ==
    <<"0", " ", "|", " ", "0", " ", "|", " ", "0">>

Negative ==
    <<"-", "1", " ", "|", " ", "4", " ", "|", " ", "5">>

\* spellings of a thread count and of a number, each with the value written
ThreadSpellings ==
    { [str |-> <<"1">>, val |-> 1],
      [str |-> <<"2">>, val |-> 2],
      [str |-> <<"1", "6">>, val |-> 16] }

NumberSpellings ==
    { [str |-> <<"4">>, val |-> [m |-> 4, s |-> 0]],
      [str |-> <<"0", ".", "5">>, val |-> [m |-> 5, s |-> 1]],
      [str |-> <<"1", "5", "0", ".", "0">>, val |-> [m |-> 150, s |-> 0]],
      [str |-> <<"1", "2", "0", ".", "5">>, val |-> [m |-> 1205, s |-> 1]],
      [str |-> <<"3", "1", "0">>, val |-> [m |-> 310, s |-> 0]],
      [str |-> <<"0", ".", "0", "5">>, val |-> [m |-> 5, s |-> 2]] }

Pad(n) == [k \in 1..n |-> " "]

\* the row  <threads> | <chunk_mb> | <throughput_mb_s>  with n spaces on
\* each side of the pipes
WriteRow(th, ch, thr, n) ==
    th.str \o Pad(n) \o <<"|">> \o Pad(n) \o ch.str \o Pad(n) \o <<"|">>
           \o Pad(n) \o thr.str

WrittenRows ==
    { WriteRow(th, ch, thr, n) : th \in ThreadSpellings, ch \in NumberSpellings,
                                 thr \in NumberSpellings, n \in 0..MaxPad }

CoreLines == {RowA, RowB, LoneDot, NonNumeric, Truncated, Note}

OddLines ==
    {RowC, RowTight, TwoDots, DecimalThreads, TwoOnLine, ZeroRow, Negative}

SeqUpTo(S, n) == UNION {[1..k -> S] : k \in 0..n}

Bodies ==
    SeqUpTo(CoreLines, MaxRows)
        \cup {<<l>> : l \in OddLines \cup WrittenRows}
        \cup {<<l, RowB>> : l \in OddLines}
        \cup {<<RowA, RowC>>, <<RowC, RowA>>}

DecBodies == {<<>>, <<RowC>>, <<LoneDot>>, <<NonNumeric>>}

Files ==
    [enc : BOOLEAN, encBody : Bodies, dec : BOOLEAN, decBody : DecBodies,
     tail : BOOLEAN]

RECURSIVE Join(_)
Join(ls) ==
    IF ls = <<>> THEN <<>> ELSE Head(ls) \o <<"\n">> \o Join(Tail(ls))

\* a file is also given as the plain list of its lines, [lines |-> ...]
FileLines(f) ==
    IF "lines" \in DOMAIN f THEN f.lines
    ELSE (IF f.enc THEN <<EncHeader>> ELSE <<>>) \o f.encBody
        \o (IF f.dec THEN <<DecHeader>> ELSE <<>>) \o f.decBody
        \o (IF f.tail THEN <<OtherHeader, RowB>> ELSE <<>>)

\* a byte that belongs to no valid UTF-8 sequence (0xFF)
Invalid == "FF"

HasInvalid(bytes) == \E i \in 1..Len(bytes) : bytes[i] = Invalid

\* the bytes of the file, one element per character or invalid byte
read_bytes(f) == Join(FileLines(f))

\* decoding with errors="ignore": invalid bytes are dropped
decode_ignore(bytes) == SelectSeq(bytes, LAMBDA b : b # Invalid)

\* filename.read_text(encoding="utf-8", errors="ignore"), charts.py:32
read_text(f) == decode_ignore(read_bytes(f))

(***************************************************************************)
(* The process: one call of parse_mylib_results on the input file.          *)
(***************************************************************************)
NoFrame == [columns |-> <<>>, rows |-> <<>>]

\* the primary input of a process that reads only the OpenSSL log
NoFile ==
    [enc |-> FALSE, encBody |-> <<>>, dec |-> FALSE, decBody |-> <<>>,
     tail |-> FALSE]

Init ==
    /\ file \in Files
    /\ pc = "start"
    /\ enc_df = NoFrame
    /\ dec_df = NoFrame
    /\ error = "none"
    /\ calls = <<>>
    /\ ossl_file = <<>>
    /\ ossl_df = NoFrame
    /\ present = [mylib |-> TRUE, openssl |-> FALSE]
    /\ status = <<>>
    /\ out = <<>>
    /\ NoCli

ParseMylibResults ==
    /\ pc = "start"
    /\ \E r \in {parse_mylib_results(read_text(file))} :
       /\ pc' = IF r.raised THEN "raised" ELSE "done"
       /\ error' = IF r.raised THEN "ValueError" ELSE "none"
       /\ enc_df' = IF r.raised THEN enc_df ELSE r.enc
       /\ dec_df' = IF r.raised THEN dec_df ELSE r.dec
       /\ calls' = Append(calls, [file |-> file, raised |-> r.raised,
                                  enc |-> r.enc, dec |-> r.dec])
    /\ UNCHANGED <<file, ossl_file, ossl_df, present, status, out>>
    /\ UNCHANGED cliVars

Next == ParseMylibResults

Spec == Init /\ [][Next]_vars

(***************************************************************************)
(* A process that calls the parser several times, on files of its choice.   *)
(***************************************************************************)
SeqFiles ==
    [enc : {TRUE},
     encBody : {<<>>, <<RowA>>, <<RowA, RowB>>, <<LoneDot>>, <<NonNumeric>>,
                <<TwoOnLine>>},
     dec : BOOLEAN, decBody : {<<RowC>>}, tail : {FALSE}]

InitSeq ==
    /\ file \in SeqFiles
    /\ pc = "start"
    /\ enc_df = NoFrame
    /\ dec_df = NoFrame
    /\ error = "none"
    /\ calls = <<>>
    /\ ossl_file = <<>>
    /\ ossl_df = NoFrame
    /\ present = [mylib |-> TRUE, openssl |-> FALSE]
    /\ status = <<>>
    /\ out = <<>>
    /\ NoCli

\* the caller hands the next file to the parser
NextCall ==
    /\ pc # "start"
    /\ Len(calls) < MaxCalls
    /\ file' \in SeqFiles
    /\ pc' = "start"
    /\ UNCHANGED <<enc_df, dec_df, error, calls,
                   ossl_file, ossl_df, present, status, out>>
    /\ UNCHANGED cliVars

NextSeq == ParseMylibResults \/ NextCall

SpecSeq == InitSeq /\ [][NextSeq]_vars

(***************************************************************************)
(* parse_openssl_results, charts.py:57-112.  The two line patterns carry    *)
(* re.MULTILINE (^ and $ hold at line boundaries, \s still crosses          *)
(* newlines); the free-text patterns carry re.IGNORECASE.  A throughput is  *)
(* kept as the exact fraction n / d in lowest terms.                        *)
(***************************************************************************)
AtLineStart(s, i) == i = 1 \/ s[i - 1] = "\n"

AtLineEnd(s, p) == p = Len(s) + 1 \/ s[p] = "\n"

SetMax(S) == CHOOSE x \in S : \A y \in S : y <= x

SetMin(S) == CHOOSE x \in S : \A y \in S : x <= y

\* the element of a singleton set; {Body(x) : x \in {e}} computes e once
\* and hands its value to Body
The(S) == CHOOSE x \in S : TRUE

\* \s*$ succeeds from e: the line ends somewhere in the whitespace run at e
TailOK(s, e) == \E p \in e..RunEnd(s, e, Space) : AtLineEnd(s, p)

TypeLit ==
    <<"t", "y", "p", "e">>

BytesLit ==
    <<"b", "y", "t", "e", "s">>

LabelLit ==
    <<"A", "E", "S", "-", "1", "2", "8", "-", "G", "C", "M">>

NoItem == [ok |-> FALSE, b |-> 0, r |-> 0]

\* one repetition  \d+\s+bytes\s+  at j: b is the position after 'bytes',
\* r the end of the whitespace run that follows it
SizeItem(s, j) ==
    LET d == RunEnd(s, j, Digit)
        w == RunEnd(s, d, Space)
    IN IF d > j /\ w > d /\ LitAt(s, w, BytesLit)
       THEN LET b == w + Len(BytesLit)
                r == RunEnd(s, b, Space)
            IN IF r > b THEN [ok |-> TRUE, b |-> b, r |-> r] ELSE NoItem
       ELSE NoItem

RECURSIVE SizeItems(_, _)
SizeItems(s, j) ==
    LET it == SizeItem(s, j) IN
    IF it.ok THEN <<it>> \o SizeItems(s, it.r) ELSE <<>>

NoGroup == [found |-> FALSE, group |-> <<>>]

\* ^type\s+((?:\d+\s+bytes\s+)+)\s*$  tried at i: the greedy repetition
\* keeps the most items after which the line can end, and the last \s+
\* stops at the last line end of its whitespace run
HeaderAt(s, i) ==
    IF ~(AtLineStart(s, i) /\ LitAt(s, i, TypeLit)) THEN NoGroup
    ELSE
    LET a == i + Len(TypeLit)
        w == RunEnd(s, a, Space)
    IN IF w = a THEN NoGroup
       ELSE
       LET items == SizeItems(s, w)
           ends(k) == {p \in (items[k].b + 1)..items[k].r : AtLineEnd(s, p)}
           ks == {k \in 1..Len(items) : ends(k) # {}}
       IN IF ks = {} THEN NoGroup
          ELSE [found |-> TRUE, group |-> Slice(s, w, SetMax(ends(SetMax(ks))))]

\* header_match, charts.py:71: re.search takes the leftmost match
header_match(s) ==
    LET at == {i \in 1..Len(s) : HeaderAt(s, i).found} IN
    IF at = {} THEN NoGroup ELSE HeaderAt(s, SetMin(at))

\* ^AES-128-GCM\s+(.+?)\s*$  tried at i: the greedy \s+ gives back
\* whitespace until the lazy group, which never holds a newline, can be
\* followed by the end of a line
RowAt(s, i) ==
    IF ~(AtLineStart(s, i) /\ LitAt(s, i, LabelLit)) THEN NoGroup
    ELSE
    LET a == i + Len(LabelLit)
        w == RunEnd(s, a, Space)
        lazy(q) == {e \in (q + 1)..(Len(s) + 1) :
                       /\ \A k \in q..(e - 1) : s[k] # "\n"
                       /\ TailOK(s, e)}
        qs == {q \in (a + 1)..w : lazy(q) # {}}
    IN IF qs = {} THEN NoGroup
       ELSE [found |-> TRUE,
             group |-> Slice(s, SetMax(qs), SetMin(lazy(SetMax(qs))))]

\* row_match, charts.py:72
row_match(s) ==
    LET at == {i \in 1..Len(s) : RowAt(s, i).found} IN
    IF at = {} THEN NoGroup ELSE RowAt(s, SetMin(at))

NoPrefix == [ok |-> FALSE, size |-> <<>>, end |-> 0]

\* re.findall(r"(\d+)\s+bytes", sizes_str), charts.py:97
BytesAt(g, i) ==
    LET d == RunEnd(g, i, Digit)
        w == RunEnd(g, d, Space)
    IN IF d > i /\ w > d /\ LitAt(g, w, BytesLit)
       THEN [ok |-> TRUE, size |-> Slice(g, i, d), end |-> w + Len(BytesLit)]
       ELSE NoPrefix

RECURSIVE findall_bytes(_, _)
findall_bytes(g, i) ==
    The({IF at = {} THEN <<>>
         ELSE The({<<m.size>> \o findall_bytes(g, m.end) :
                      m \in {BytesAt(g, SetMin(at))}}) :
            at \in {{j \in i..Len(g) : BytesAt(g, j).ok}}})

\* re.findall(r"([\d.]+)k", ...), charts.py:99
KiloAt(g, i) ==
    LET e == RunEnd(g, i, NumCh) IN e > i /\ e <= Len(g) /\ g[e] = "k"

RECURSIVE findall_k(_, _)
findall_k(g, i) ==
    The({IF at = {} THEN <<>>
         ELSE The({<<Slice(g, SetMin(at), e)>> \o findall_k(g, e + 1) :
                      e \in {RunEnd(g, SetMin(at), NumCh)}}) :
            at \in {{j \in i..Len(g) : KiloAt(g, j)}}})

(***************************************************************************)
(* The free-text patterns, charts.py:77 and 84, with re.IGNORECASE          *)
(***************************************************************************)
UpperCh ==
    <<"A", "B", "C", "D", "E", "F", "G", "H", "I", "J", "K", "L", "M",
      "N", "O", "P", "Q", "R", "S", "T", "U", "V", "W", "X", "Y", "Z">>

LowerCh ==
    <<"a", "b", "c", "d", "e", "f", "g", "h", "i", "j", "k", "l", "m",
      "n", "o", "p", "q", "r", "s", "t", "u", "v", "w", "x", "y", "z">>

Lower(c) ==
    IF \E k \in 1..26 : UpperCh[k] = c
    THEN LowerCh[CHOOSE k \in 1..26 : UpperCh[k] = c]
    ELSE c

\* the literal lit occurs in s at i, letter case ignored
LitAtI(s, i, lit) ==
    /\ i + Len(lit) - 1 <= Len(s)
    /\ \A k \in 1..Len(lit) : Lower(s[i + k - 1]) = Lower(lit[k])

OnLit ==
    <<"o", "n">>

SizeBlocksLit ==
    <<"s", "i", "z", "e", " ", "b", "l", "o", "c", "k", "s", ":">>

OpsLit ==
    <<"A", "E", "S", "-", "1", "2", "8", "-", "G", "C", "M", " ", "o", "p", "s">>

InLit ==
    <<" ", "i", "n">>

\* on\s+(\d+)\s+size blocks:  at i
SizePrefix(s, i) ==
    IF ~LitAtI(s, i, OnLit) THEN NoPrefix
    ELSE
    LET a == i + Len(OnLit)
        d == RunEnd(s, a, Space)
        w == RunEnd(s, d, Digit)
        b == RunEnd(s, w, Space)
    IN IF d > a /\ w > d /\ b > w /\ LitAtI(s, b, SizeBlocksLit)
       THEN [ok |-> TRUE, size |-> Slice(s, d, w), end |-> b + Len(SizeBlocksLit)]
       ELSE NoPrefix

NoTime == [ok |-> FALSE, secs |-> <<>>, end |-> 0]

\* ' in\s+([\d.]+)s'  at t
TimeAt(s, t) ==
    IF ~LitAtI(s, t, InLit) THEN NoTime
    ELSE
    LET a == t + Len(InLit)
        w == RunEnd(s, a, Space)
        e == RunEnd(s, w, NumCh)
    IN IF w > a /\ e > w /\ e <= Len(s) /\ Lower(s[e]) = "s"
       THEN [ok |-> TRUE, secs |-> Slice(s, w, e), end |-> e + 1]
       ELSE NoTime

NoFree == [ok |-> FALSE, size |-> <<>>, ops |-> <<>>, secs |-> <<>>, end |-> 0]

\* pat of charts.py:77,  on\s+(\d+)\s+size blocks:.*? in\s+([\d.]+)s :
\* the lazy .*? stays on the line and stops at the first ' in <number>s'
ossl_pat(s, i) ==
    LET p == SizePrefix(s, i) IN
    IF ~p.ok THEN NoFree
    ELSE
    LET eol == SetMin({j \in p.end..(Len(s) + 1) : AtLineEnd(s, j)})
        ts == {t \in p.end..eol : TimeAt(s, t).ok}
    IN IF ts = {} THEN NoFree
       ELSE LET m == TimeAt(s, SetMin(ts)) IN
            [ok |-> TRUE, size |-> p.size, ops |-> <<>>, secs |-> m.secs,
             end |-> m.end]

\* pat2 of charts.py:84,
\* on\s+(\d+)\s+size blocks:\s*(\d+)\s+AES-128-GCM ops in\s+([\d.]+)s
pat2(s, i) ==
    LET p == SizePrefix(s, i) IN
    IF ~p.ok THEN NoFree
    ELSE
    LET a == RunEnd(s, p.end, Space)
        d == RunEnd(s, a, Digit)
        w == RunEnd(s, d, Space)
        m == IF d > a /\ w > d /\ LitAtI(s, w, OpsLit)
             THEN TimeAt(s, w + Len(OpsLit)) ELSE NoTime
    IN IF m.ok
       THEN [ok |-> TRUE, size |-> p.size, ops |-> Slice(s, a, d),
             secs |-> m.secs, end |-> m.end]
       ELSE NoFree

\* pat.finditer(text) and pat2.finditer(text), charts.py:80 and 86
RECURSIVE finditer(_, _)
finditer(s, i) ==
    The({IF at = {} THEN <<>>
         ELSE The({<<m>> \o finditer(s, m.end) : m \in {ossl_pat(s, SetMin(at))}}) :
            at \in {{j \in i..Len(s) : ossl_pat(s, j).ok}}})

RECURSIVE finditer2(_, _)
finditer2(s, i) ==
    The({IF at = {} THEN <<>>
         ELSE The({<<m>> \o finditer2(s, m.end) : m \in {pat2(s, SetMin(at))}}) :
            at \in {{j \in i..Len(s) : pat2(s, j).ok}}})

(***************************************************************************)
(* Arithmetic and tables of parse_openssl_results                           *)
(***************************************************************************)
RECURSIVE GCD(_, _)
GCD(a, b) == IF b = 0 THEN a ELSE GCD(b, a % b)

\* the fraction n / d in lowest terms (d > 0)
Frac(n, d) ==
    LET g == GCD(n, d) IN [n |-> n \div g, d |-> d \div g]

RECURSIVE Pow10(_)
Pow10(k) == IF k = 0 THEN 1 ELSE 10 * Pow10(k - 1)

\* v / 1000.0, charts.py:106
Kilo == 1000

\* bytes_per_sec / 1_000_000.0, charts.py:91
Mega == 1000000

OsslColumns == <<"BlockBytes", "ThroughputMBps", "Label">>

\* the label token of the data line
OsslLabel_token == "AES-128-GCM"

\* the Label of every row, charts.py:92 and 110
OsslLabel == "OpenSSL AES-128-GCM"

\* a row of the structured path, charts.py:106-111
ZipRow(size, v) ==
    [BlockBytes |-> int(size),
     ThroughputMBps |-> Frac(float(v).m, Pow10(float(v).s) * Kilo),
     Label |-> OsslLabel]

\* a row of the fallback path, charts.py:87-92
FreeRow(m) ==
    [BlockBytes |-> int(m.size),
     ThroughputMBps |-> Frac(int(m.ops) * int(m.size) * Pow10(float(m.secs).s),
                             float(m.secs).m * Mega),
     Label |-> OsslLabel]

\* sorted(data, key=BlockBytes), charts.py:93: a stable sort
RECURSIVE sorted(_)
sorted(rows) ==
    IF rows = <<>> THEN <<>>
    ELSE The({SelectSeq(rest, LAMBDA r : r.BlockBytes <= x.BlockBytes)
                 \o <<x>>
                 \o SelectSeq(rest, LAMBDA r : r.BlockBytes > x.BlockBytes) :
                 rest \in {sorted(SubSeq(rows, 1, Len(rows) - 1))},
                 x \in {rows[Len(rows)]}})

\* the frame returned as it was built, without sorting
sort_values_unsorted(rows) == {rows}

\* df.sort_values("BlockBytes").reset_index(drop=True), charts.py:112: the
\* default sort is not stable, so rows of equal BlockBytes come in any order
sort_values(rows) ==
    LET n == Len(rows)
        perms == {p \in [1..n -> 1..n] :
                     /\ \A i, j \in 1..n : i # j => p[i] # p[j]
                     /\ \A i \in 1..(n - 1) :
                           rows[p[i]].BlockBytes <= rows[p[i + 1]].BlockBytes}
    IN {[k \in 1..n |-> rows[p[k]]] : p \in perms}

Returned(df) == [raised |-> FALSE, error |-> "none", df |-> df]

Raised(e) == [raised |-> TRUE, error |-> e, df |-> [columns |-> <<>>, rows |-> <<>>]]

\* the first free-text match whose seconds float() rejects or that divides
\* by zero decides the exception of the second loop, charts.py:86-91
BadSecs(m) == FloatRaises(m.secs) \/ float(m.secs).m = 0

\* the fallback branch, charts.py:75-93: the first loop converts every
\* match of pat, the second builds a row from every match of pat2
Data(ms2) ==
    The({Returned([columns |-> IF data = <<>> THEN <<>> ELSE OsslColumns,
                   rows |-> data]) :
            data \in {sorted([k \in 1..Len(ms2) |-> FreeRow(ms2[k])])}})

fallback(text) ==
    The({IF \E k \in 1..Len(ms) : FloatRaises(ms[k].secs) THEN Raised("ValueError")
         ELSE IF \E k \in 1..Len(ms2) : BadSecs(ms2[k])
         THEN Raised(IF FloatRaises(ms2[SetMin({k \in 1..Len(ms2) : BadSecs(ms2[k])})].secs)
                     THEN "ValueError" ELSE "ZeroDivisionError")
         ELSE Data(ms2) :
            ms \in {finditer(text, 1)}, ms2 \in {finditer2(text, 1)}})

Min2(a, b) == IF a <= b THEN a ELSE b

\* n = min(len(size_vals), len(row_vals)) and the rows zipped from the
\* truncated lists, charts.py:101-111
Zipped(size_vals, strs) ==
    [k \in 1..Min2(Len(size_vals), Len(strs)) |-> ZipRow(size_vals[k], strs[k])]

\* a structured branch that sorts the sizes before it pairs them
Zipped_sortfirst(found, strs) ==
    LET keyed == sorted([k \in 1..Len(found) |-> [BlockBytes |-> int(found[k])]])
    IN [k \in 1..Min2(Len(found), Len(strs)) |->
           [BlockBytes |-> keyed[k].BlockBytes,
            ThroughputMBps |-> ZipRow(found[k], strs[k]).ThroughputMBps,
            Label |-> OsslLabel]]

structured_sortfirst(h, r) ==
    UNION {IF \E k \in 1..Len(strs) : FloatRaises(strs[k])
           THEN {Raised("ValueError")}
           ELSE {Returned([columns |-> OsslColumns, rows |-> rows]) :
                    rows \in sort_values(Zipped_sortfirst(size_vals, strs))} :
              size_vals \in {findall_bytes(h.group, 1)},
              strs \in {findall_k(r.group, 1)}}

\* the structured branch, charts.py:96-112
structured(h, r) ==
    UNION {IF \E k \in 1..Len(strs) : FloatRaises(strs[k])
           THEN {Raised("ValueError")}
           ELSE {Returned([columns |-> OsslColumns, rows |-> rows]) :
                    rows \in sort_values(Zipped(size_vals, strs))} :
              size_vals \in {findall_bytes(h.group, 1)},
              strs \in {findall_k(r.group, 1)}}

\* the branch condition of charts.py:74
UseFallback(h, r) == ~h.found \/ ~r.found

\* parse_openssl_results that falls back only when both matches are
\* missing: group(1) of a missing match raises AttributeError
parse_openssl_results_and(text) ==
    UNION {IF ~h.found /\ ~r.found THEN {fallback(text)}
           ELSE IF UseFallback(h, r) THEN {Raised("AttributeError")}
           ELSE structured(h, r) :
              h \in {header_match(text)}, r \in {row_match(text)}}

\* the outcomes of parse_openssl_results on a text: a returned table or
\* the exception that leaves the function
parse_openssl_results(text) ==
    UNION {IF UseFallback(h, r) THEN {fallback(text)} ELSE structured(h, r) :
              h \in {header_match(text)}, r \in {row_match(text)}}

(***************************************************************************)
(* OpenSSL logs: lines of 'openssl speed' output and of text that looks     *)
(* like it.  HdrSp .. Hdr3 are header lines (all but Hdr end in a space),   *)
(* RowLine .. RowOther data lines, Free16 .. FreeBad free-text lines.       *)
(***************************************************************************)
HdrSp ==
    <<"t", "y", "p", "e", " ", "1", "6", " ", "b", "y", "t", "e", "s", " ", "6", "4", " ", "b", "y", "t", "e", "s", " ">>

Hdr ==
    <<"t", "y", "p", "e", " ", "1", "6", " ", "b", "y", "t", "e", "s", " ", "6", "4", " ", "b", "y", "t", "e", "s">>

HdrRev ==
    <<"t", "y", "p", "e", " ", "6", "4", " ", "b", "y", "t", "e", "s", " ", "1", "6", " ", "b", "y", "t", "e", "s", " ">>

HdrDup ==
    <<"t", "y", "p", "e", " ", "1", "6", " ", "b", "y", "t", "e", "s", " ", "1", "6", " ", "b", "y", "t", "e", "s", " ">>

Hdr3 ==
    <<"t", "y", "p", "e", " ", "1", "6", " ", "b", "y", "t", "e", "s", " ", "6", "4", " ", "b", "y", "t", "e", "s", " ", "2", "5", "6", " ", "b", "y", "t", "e", "s", " ">>

RowLine ==
    <<"A", "E", "S", "-", "1", "2", "8", "-", "G", "C", "M", " ", "1", "0", "3", "8", "7", "2", ".", "5", "8", "k", " ", "2", "0", "5", "0", "0", "0", ".", "0", "0", "k">>

Row1 ==
    <<"A", "E", "S", "-", "1", "2", "8", "-", "G", "C", "M", " ", "5", "k">>

Row3 ==
    <<"A", "E", "S", "-", "1", "2", "8", "-", "G", "C", "M", " ", "2", "k", " ", "1", "k", " ", "7", "k">>

RowBad ==
    <<"A", "E", "S", "-", "1", "2", "8", "-", "G", "C", "M", " ", "1", ".", "2", ".", "3", "k", " ", "4", "k">>

RowOther ==
    <<"A", "E", "S", "-", "2", "5", "6", "-", "G", "C", "M", " ", "5", "k", " ", "6", "k">>

Free16 ==
    <<"o", "n", " ", "1", "6", " ", "s", "i", "z", "e", " ", "b", "l", "o", "c", "k", "s", ":", " ", "3", "0", "0", " ", "A", "E", "S", "-", "1", "2", "8", "-", "G", "C", "M", " ", "o", "p", "s", " ", "i", "n", " ", "2", ".", "0", "0", "s">>

Free64 ==
    <<"o", "n", " ", "6", "4", " ", "s", "i", "z", "e", " ", "b", "l", "o", "c", "k", "s", ":", " ", "1", "0", " ", "A", "E", "S", "-", "1", "2", "8", "-", "G", "C", "M", " ", "o", "p", "s", " ", "i", "n", " ", "2", "s">>

FreeUpper ==
    <<"O", "N", " ", "8", " ", "S", "I", "Z", "E", " ", "B", "L", "O", "C", "K", "S", ":", " ", "5", " ", "a", "e", "s", "-", "1", "2", "8", "-", "g", "c", "m", " ", "O", "P", "S", " ", "I", "N", " ", "4", "S">>

FreeOther ==
    <<"o", "n", " ", "1", "6", " ", "s", "i", "z", "e", " ", "b", "l", "o", "c", "k", "s", ":", " ", "3", "0", "0", " ", "A", "E", "S", "-", "2", "5", "6", "-", "G", "C", "M", " ", "o", "p", "s", " ", "i", "n", " ", "2", ".", "0", "0", "s">>

FreeZero ==
    <<"o", "n", " ", "1", "6", " ", "s", "i", "z", "e", " ", "b", "l", "o", "c", "k", "s", ":", " ", "3", "0", "0", " ", "A", "E", "S", "-", "1", "2", "8", "-", "G", "C", "M", " ", "o", "p", "s", " ", "i", "n", " ", "0", ".", "0", "0", "s">>

FreeBad ==
    <<"o", "n", " ", "1", "6", " ", "s", "i", "z", "e", " ", "b", "l", "o", "c", "k", "s", ":", " ", "3", "0", "0", " ", "A", "E", "S", "-", "2", "5", "6", "-", "G", "C", "M", " ", "o", "p", "s", " ", "i", "n", " ", "1", ".", "2", ".", "3", "s">>

Garbage ==
    <<"h", "e", "l", "l", "o">>

Blank == <<>>

HeaderLines == {HdrSp, Hdr, HdrRev, HdrDup, Hdr3}

DataLines == {RowLine, Row1, Row3, RowBad, RowOther}

FreeLines == {Free16, Free64, FreeUpper, FreeOther, FreeZero, FreeBad}

OsslLines == HeaderLines \cup DataLines \cup FreeLines \cup {Garbage, Blank}

\* logs of up to MaxLines lines, and header / data / free-text logs
OsslFiles ==
    SeqUpTo(OsslLines, MaxLines)
        \cup {<<h, r, f>> : h \in HeaderLines, r \in DataLines \cup {Blank},
                            f \in FreeLines \cup DataLines}

(***************************************************************************)
(* The process of one call of parse_openssl_results on the OpenSSL log.     *)
(***************************************************************************)
InitOssl ==
    /\ file = NoFile
    /\ ossl_file \in OsslFiles
    /\ pc = "start"
    /\ enc_df = NoFrame
    /\ dec_df = NoFrame
    /\ ossl_df = NoFrame
    /\ error = "none"
    /\ calls = <<>>
    /\ present = [mylib |-> TRUE, openssl |-> TRUE]
    /\ status = <<>>
    /\ out = <<>>
    /\ NoCli

ParseOpensslResults ==
    /\ pc = "start"
    /\ \E r \in parse_openssl_results(Join(ossl_file)) :
       /\ pc' = IF r.raised THEN "raised" ELSE "done"
       /\ error' = r.error
       /\ ossl_df' = IF r.raised THEN ossl_df ELSE r.df
    /\ UNCHANGED <<file, ossl_file, enc_df, dec_df, calls, present, status, out>>
    /\ UNCHANGED cliVars

NextOssl == ParseOpensslResults

SpecOssl == InitOssl /\ [][NextOssl]_vars

(***************************************************************************)
(* charts.main, charts.py:586-627.  present tells which of the two input    *)
(* paths exist; out is what the run printed and the chart files it wrote,   *)
(* in order; status holds the exit status of the process once it ended      *)
(* (main's return value handed to SystemExit, 1 after an uncaught           *)
(* exception).                                                              *)
(***************************************************************************)
Printed(text) == [kind |-> "print", text |-> text]

Written(name) == [kind |-> "chart", text |-> name]

\* DataFrame.empty
Empty(df) == df.rows = <<>>

\* the guard and the savefig of a chart builder, charts.py:117-119 and 186,
\* 192-194 and 308, 493-495 and 533
Chart(enc, dec, name) ==
    IF Empty(enc) \/ Empty(dec) THEN <<Printed("[warn] data empty; skipping")>>
    ELSE <<Written(name)>>

\* DataFrame.pivot(index='Threads', columns='ChunkMB') of charts.py:361-362
\* raises ValueError when two rows share a (Threads, ChunkMB) pair
PivotRaises(df) ==
    \E i, j \in 1..Len(df.rows) :
        /\ i < j
        /\ df.rows[i].Threads = df.rows[j].Threads
        /\ df.rows[i].ChunkMB = df.rows[j].ChunkMB

\* plot_openssl_comparison, charts.py:537-583
PlotOpensslComparison(ossl) ==
    IF Empty(ossl) THEN <<Printed("[warn] OpenSSL data missing; skipping openssl_comparison.png")>>
    ELSE <<Written("openssl_comparison.png")>>

MainFiles ==
    [enc : BOOLEAN,
     encBody : {<<>>, <<RowA, RowB>>, <<RowA, RowC>>, <<LoneDot>>},
     dec : BOOLEAN, decBody : {<<>>, <<RowC>>}, tail : {FALSE}]

MainOssl ==
    {<<>>, <<HdrSp, RowLine>>, <<Hdr, RowLine>>, <<Free64, Free16>>,
     <<FreeZero>>, <<RowBad, HdrSp>>, <<Garbage>>}

InitMain ==
    /\ file \in MainFiles
    /\ ossl_file \in MainOssl
    /\ present \in [mylib : BOOLEAN, openssl : BOOLEAN]
    /\ pc = "main"
    /\ enc_df = NoFrame
    /\ dec_df = NoFrame
    /\ ossl_df = NoFrame
    /\ error = "none"
    /\ calls = <<>>
    /\ status = <<>>
    /\ out = <<>>
    /\ NoCli

\* main that does not look for the input file before parsing it
MainCheckInput_nocheck ==
    /\ pc = "main"
    /\ pc' = "parse"
    /\ UNCHANGED <<file, ossl_file, present, enc_df, dec_df, ossl_df, error,
                   calls, status, out>>
    /\ UNCHANGED cliVars

\* charts.py:592-594
MainCheckInput ==
    /\ pc = "main"
    /\ IF ~present.mylib
       THEN /\ out' = Append(out, Printed("[error] CottonCrypto input not found"))
            /\ status' = <<1>>
            /\ pc' = "exit"
       ELSE /\ pc' = "parse"
            /\ UNCHANGED <<out, status>>
    /\ UNCHANGED <<file, ossl_file, present, enc_df, dec_df, ossl_df, error, calls>>
    /\ UNCHANGED cliVars

\* charts.py:596-601; read_text of a missing file raises FileNotFoundError
MainParse ==
    /\ pc = "parse"
    /\ IF ~present.mylib
       THEN /\ pc' = "crashed"
            /\ error' = "FileNotFoundError"
            /\ status' = <<1>>
            /\ UNCHANGED <<enc_df, dec_df, calls, out>>
       ELSE \E r \in {parse_mylib_results(read_text(file))} :
            /\ calls' = Append(calls, [file |-> file, raised |-> r.raised,
                                       enc |-> r.enc, dec |-> r.dec])
            /\ IF r.raised
               THEN /\ pc' = "crashed"
                    /\ error' = "ValueError"
                    /\ status' = <<1>>
                    /\ UNCHANGED <<enc_df, dec_df, out>>
               ELSE /\ enc_df' = r.enc
                    /\ dec_df' = r.dec
                    /\ error' = "none"
                    /\ IF Empty(r.enc) \/ Empty(r.dec)
                       THEN /\ out' = Append(out, Printed("[error] Failed to parse CottonCrypto data"))
                            /\ status' = <<2>>
                            /\ pc' = "exit"
                       ELSE /\ out' = Append(out, Printed("Loaded CottonCrypto data"))
                            /\ pc' = "charts"
                            /\ UNCHANGED status
    /\ UNCHANGED <<file, ossl_file, present, ossl_df>>
    /\ UNCHANGED cliVars

\* chart builders that sort the encryption table they were given in place
\* (descending throughput) before drawing
MainCharts_sorts ==
    /\ pc = "charts"
    /\ out' = out \o Chart(enc_df, dec_df, "library_performance.png")
                   \o Chart(enc_df, dec_df, "advanced_performance_analysis.png")
                   \o Chart(enc_df, dec_df, "mega_performance_analysis.png")
    /\ enc_df' = [enc_df EXCEPT !.rows =
                     [k \in 1..Len(enc_df.rows) |->
                         enc_df.rows[Len(enc_df.rows) + 1 - k]]]
    /\ pc' = "reference"
    /\ UNCHANGED <<file, ossl_file, present, dec_df, ossl_df, calls, error, status>>
    /\ UNCHANGED cliVars

\* charts.py:603-608: the three library charts; the heat map of the third
\* pivots both tables
MainCharts ==
    /\ pc = "charts"
    /\ IF PivotRaises(enc_df) \/ PivotRaises(dec_df)
       THEN /\ out' = out \o Chart(enc_df, dec_df, "library_performance.png")
                          \o Chart(enc_df, dec_df, "advanced_performance_analysis.png")
            /\ pc' = "crashed"
            /\ error' = "ValueError"
            /\ status' = <<1>>
       ELSE /\ out' = out \o Chart(enc_df, dec_df, "library_performance.png")
                          \o Chart(enc_df, dec_df, "advanced_performance_analysis.png")
                          \o Chart(enc_df, dec_df, "mega_performance_analysis.png")
            /\ pc' = "reference"
            /\ UNCHANGED <<error, status>>
    /\ UNCHANGED <<file, ossl_file, present, enc_df, dec_df, ossl_df, calls>>
    /\ UNCHANGED cliVars

\* charts.py:610-617: the optional OpenSSL part
MainReference ==
    /\ pc = "reference"
    /\ IF ~present.openssl
       THEN /\ out' = Append(out, Printed("[info] OpenSSL input not found, skipping comparison"))
            /\ pc' = "summary"
            /\ UNCHANGED <<ossl_df, error, status>>
       ELSE \E r \in parse_openssl_results(Join(ossl_file)) :
            IF r.raised
            THEN /\ pc' = "crashed"
                 /\ error' = r.error
                 /\ status' = <<1>>
                 /\ UNCHANGED <<ossl_df, out>>
            ELSE /\ ossl_df' = r.df
                 /\ out' = Append(out, Printed("Loaded OpenSSL data"))
                              \o PlotOpensslComparison(r.df)
                 /\ pc' = "summary"
                 /\ UNCHANGED <<error, status>>
    /\ UNCHANGED <<file, ossl_file, present, enc_df, dec_df, calls>>
    /\ UNCHANGED cliVars

\* a summary that reports the OpenSSL maximum without looking at the table
MainSummary_nocheck ==
    /\ pc = "summary"
    /\ out' = Append(out, Printed("Summary")) \o <<Printed("OpenSSL best")>>
    /\ status' = <<0>>
    /\ pc' = "exit"
    /\ UNCHANGED <<file, ossl_file, present, enc_df, dec_df, ossl_df, error, calls>>
    /\ UNCHANGED cliVars

\* charts.py:619-627: idxmax of both library tables, then the OpenSSL
\* maximum under  if not ossl_df.empty
MainSummary ==
    /\ pc = "summary"
    /\ out' = Append(out, Printed("Summary"))
                 \o (IF Empty(ossl_df) THEN <<>> ELSE <<Printed("OpenSSL best")>>)
    /\ status' = <<0>>
    /\ pc' = "exit"
    /\ UNCHANGED <<file, ossl_file, present, enc_df, dec_df, ossl_df, error, calls>>
    /\ UNCHANGED cliVars

NextMain ==
    \/ MainCheckInput
    \/ MainParse
    \/ MainCharts
    \/ MainReference
    \/ MainSummary

SpecMain == InitMain /\ [][NextMain]_vars

(***************************************************************************)
(* The legacy parser parse_test_results, test_parser.py:5-40:               *)
(*   === ENCRYPTION THREAD/CHUNK SWEEP ===(.*?)(?===|$)   with re.DOTALL,   *)
(* rows  (\d+)\s*\|\s*(\d+)\s*\|\s*([\d.]+)                                  *)
(***************************************************************************)
\* the marker with its single spaces, test_parser.py:12-15
Marker(name) == Bars \o <<" ">> \o name \o <<" ">> \o Bars

\* $ without re.MULTILINE: the end of the text, or just before its last
\* newline
AtTextEnd(s, p) == p = Len(s) + 1 \/ (p = Len(s) /\ s[p] = "\n")

\* group(1) of the section search, or "" when the marker is absent
section_text(s, name) ==
    The({IF at = {} THEN <<>>
         ELSE The({Slice(s, b, SetMin({p \in b..(Len(s) + 1) :
                                LitAt(s, p, Lookahead) \/ AtTextEnd(s, p)})) :
                      b \in {SetMin(at) + Len(Marker(name))}}) :
            at \in {{i \in 1..Len(s) : LitAt(s, i, Marker(name))}}})

\* the row pattern of test_parser.py:23 at position i
pattern(s, i) ==
    LET d1 == RunEnd(s, i, Digit)
        p1 == RunEnd(s, d1, Space)
    IN
    IF d1 = i \/ ~LitAt(s, p1, <<"|">>) THEN NoMatch
    ELSE
    LET n2 == RunEnd(s, p1 + 1, Space)
        e2 == RunEnd(s, n2, Digit)
        p2 == RunEnd(s, e2, Space)
    IN
    IF e2 = n2 \/ ~LitAt(s, p2, <<"|">>) THEN NoMatch
    ELSE
    LET n3 == RunEnd(s, p2 + 1, Space)
        e3 == RunEnd(s, n3, NumCh)
    IN
    IF e3 = n3 THEN NoMatch
    ELSE [ok |-> TRUE, th |-> Slice(s, i, d1), ch |-> Slice(s, n2, e2),
          thr |-> Slice(s, n3, e3), end |-> e3]

\* re.findall(pattern, section_text), test_parser.py:24
RECURSIVE matches(_, _)
matches(s, i) ==
    The({IF at = {} THEN <<>>
         ELSE The({<<m>> \o matches(s, m.end) : m \in {pattern(s, SetMin(at))}}) :
            at \in {{j \in i..Len(s) : pattern(s, j).ok}}})

\* the row of test_parser.py:27-32; the integer chunk size is kept as the
\* decimal it equals
TestRow(m) ==
    [Threads |-> int(m.th), ChunkMB |-> Normal(int(m.ch), 0),
     Throughput |-> float(m.thr)]

\* extract_data, test_parser.py:17-34: pd.DataFrame() for an empty text
extract_data(text) ==
    IF text = <<>> THEN [raised |-> FALSE, df |-> NoFrame]
    ELSE The({IF \E k \in 1..Len(ms) : FloatRaises(ms[k].thr)
              THEN [raised |-> TRUE, df |-> NoFrame]
              ELSE [raised |-> FALSE,
                    df |-> DataFrame([k \in 1..Len(ms) |-> TestRow(ms[k])])] :
                 ms \in {matches(text, 1)}})

parse_test_results(content) ==
    The({[raised |-> e.raised \/ d.raised, enc |-> e.df, dec |-> d.df] :
            e \in {extract_data(section_text(content, EncName))},
            d \in {extract_data(section_text(content, DecName))}})

(***************************************************************************)
(* simple_charts.main, simple_charts.py:139-180.  The whole body runs in    *)
(* one try block; main returns None, so the process ends with status 0      *)
(* whatever happened.                                                       *)
(***************************************************************************)
NotFoundMessage == "Error: file 'input.txt' not found"

EmptyDataMessage == "Error: failed to find data in input.txt"

GenericMessage == "Error: could not convert string to float"

SimpleFiles ==
    [enc : BOOLEAN, encBody : SeqUpTo(CoreLines, MaxRows), dec : BOOLEAN,
     decBody : DecBodies, tail : {FALSE}]

InitSimple ==
    /\ file \in SimpleFiles
    /\ present \in [mylib : BOOLEAN, openssl : {FALSE}]
    /\ ossl_file = <<>>
    /\ pc = "main"
    /\ enc_df = NoFrame
    /\ dec_df = NoFrame
    /\ ossl_df = NoFrame
    /\ error = "none"
    /\ calls = <<>>
    /\ status = <<>>
    /\ out = <<>>
    /\ NoCli

\* what main prints and saves once the file was read, simple_charts.py:143-176
SimpleOutcome(r) ==
    IF r.raised THEN <<Printed(GenericMessage)>>
    ELSE IF Empty(r.enc) \/ Empty(r.dec) THEN <<Printed(EmptyDataMessage)>>
    ELSE <<Printed("Data successfully loaded"),
           Written("performance_charts.png"),
           Printed("Charts saved to performance_charts.png"),
           Printed("BRIEF ANALYSIS SUMMARY"),
           Printed("The following charts were created")>>

SimpleMain ==
    /\ pc = "main"
    /\ IF ~present.mylib
       THEN /\ out' = Append(out, Printed(NotFoundMessage))
            /\ UNCHANGED <<enc_df, dec_df, calls>>
       ELSE \E r \in {parse_test_results(read_bytes(file))} :
            /\ out' = out \o SimpleOutcome(r)
            /\ enc_df' = IF r.raised THEN enc_df ELSE r.enc
            /\ dec_df' = IF r.raised THEN dec_df ELSE r.dec
            /\ calls' = Append(calls, [file |-> file, raised |-> r.raised,
                                       enc |-> r.enc, dec |-> r.dec])
    /\ status' = <<0>>
    /\ pc' = "exit"
    /\ UNCHANGED <<file, ossl_file, present, ossl_df, error>>
    /\ UNCHANGED cliVars

NextSimple == SimpleMain

SpecSimple == InitSimple /\ [][NextSimple]_vars

(***************************************************************************)
(* A process that hands one input file to both primary parsers: first       *)
(* parse_mylib_results, then parse_test_results.  The result of the second  *)
(* is the second entry of calls.                                            *)
(***************************************************************************)
\* open(filename, 'r', encoding='utf-8') ... f.read(), test_parser.py:8-9:
\* strict decoding, an invalid byte raises UnicodeDecodeError
ParseTestResults ==
    /\ pc # "start"
    /\ Len(calls) = 1
    /\ IF HasInvalid(read_bytes(file))
       THEN calls' = Append(calls, [file |-> file, raised |-> TRUE,
                                    enc |-> NoFrame, dec |-> NoFrame])
       ELSE \E r \in {parse_test_results(read_bytes(file))} :
               calls' = Append(calls, [file |-> file, raised |-> r.raised,
                                       enc |-> r.enc, dec |-> r.dec])
    /\ UNCHANGED <<file, pc, enc_df, dec_df, error, ossl_file, ossl_df,
                   present, status, out>>
    /\ UNCHANGED cliVars

NextBoth == ParseMylibResults \/ ParseTestResults

\* line l with an invalid byte put after its first p characters
Corrupt(l, p) == SubSeq(l, 1, p) \o <<Invalid>> \o SubSeq(l, p + 1, Len(l))

Corrupted(l) == {Corrupt(l, p) : p \in 0..Len(l)}

\* files with at most one invalid byte, in a row or in the encryption marker
ByteFiles ==
    {[lines |-> <<EncHeader, l, DecHeader, RowC>>] :
        l \in {RowA, RowB, RowC} \cup Corrupted(RowA) \cup Corrupted(RowB)
                 \cup Corrupted(RowC)}
    \cup {[lines |-> <<h, RowA, DecHeader, RowC>>] : h \in Corrupted(EncHeader)}

InitBytes ==
    /\ file \in ByteFiles
    /\ pc = "start"
    /\ enc_df = NoFrame
    /\ dec_df = NoFrame
    /\ error = "none"
    /\ calls = <<>>
    /\ ossl_file = <<>>
    /\ ossl_df = NoFrame
    /\ present = [mylib |-> TRUE, openssl |-> FALSE]
    /\ status = <<>>
    /\ out = <<>>
    /\ NoCli

SpecBytes == InitBytes /\ [][NextBoth]_vars

\* the encryption marker written without blanks inside the bars
EncTight == Bars \o EncName \o Bars

MarkerHeaders == {EncHeader, EncTight, DecHeader, OtherHeader}

MarkerBodies == {<<>>, <<RowA>>, <<RowB>>, <<Note, RowC>>, <<RowTight>>}

\* files of three sections, each under any of the headers
MarkerFiles ==
    {[lines |-> <<h1>> \o b1 \o <<h2>> \o b2 \o <<h3>> \o b3] :
        h1 \in MarkerHeaders, h2 \in MarkerHeaders, h3 \in MarkerHeaders,
        b1 \in MarkerBodies, b2 \in MarkerBodies, b3 \in MarkerBodies}

InitMarkers ==
    /\ file \in MarkerFiles
    /\ pc = "start"
    /\ enc_df = NoFrame
    /\ dec_df = NoFrame
    /\ error = "none"
    /\ calls = <<>>
    /\ ossl_file = <<>>
    /\ ossl_df = NoFrame
    /\ present = [mylib |-> TRUE, openssl |-> FALSE]
    /\ status = <<>>
    /\ out = <<>>
    /\ NoCli

SpecMarkers == InitMarkers /\ [][NextBoth]_vars

(***************************************************************************)
(* The launcher all_charts.py.  argv is the set of flags on the command     *)
(* line, stdin the line typed at the menu prompt (or end of input), sets    *)
(* the list main hands to run_selected, ran the generators started so far   *)
(* with the way each ended.                                                 *)
(***************************************************************************)
\* the mutually exclusive group of parse_args, all_charts.py:90-94
Group == {"--simple", "--advanced", "--mega", "--all"}

Flags == Group \cup {"--menu"}

AllSets == <<"simple", "advanced", "mega">>

\* str.strip()
RECURSIVE strip(_)
strip(s) ==
    IF s # <<>> /\ Head(s) \in Space THEN strip(Tail(s))
    ELSE IF s # <<>> /\ s[Len(s)] \in Space THEN strip(SubSeq(s, 1, Len(s) - 1))
    ELSE s

\* a menu whose dictionary lookup has no default
interactive_menu_nodefault(line) ==
    LET choice == strip(line) IN
    CASE choice = <<"1">> -> <<"simple">>
      [] choice = <<"2">> -> <<"advanced">>
      [] choice = <<"3">> -> <<"mega">>
      [] choice = <<"4">> -> AllSets
      [] OTHER -> <<>>

\* interactive_menu, all_charts.py:71-85, on the line input() returned
interactive_menu(line) ==
    LET choice == strip(line) IN
    CASE choice = <<"1">> -> <<"simple">>
      [] choice = <<"2">> -> <<"advanced">>
      [] choice = <<"3">> -> <<"mega">>
      [] choice = <<"4">> -> AllSets
      [] OTHER -> AllSets

\* the if chain of main, all_charts.py:105-113
flag_sets(args) ==
    IF "--simple" \in args THEN <<"simple">>
    ELSE IF "--advanced" \in args THEN <<"advanced">>
    ELSE IF "--mega" \in args THEN <<"mega">>
    ELSE AllSets

\* argparse rejects two flags of the exclusive group with exit status 2
parse_args_fails(args) == Cardinality(args \cap Group) > 1

Lines1to4 == {<<"1">>, <<"2">>, <<"3">>, <<"4">>}

Stdin ==
    {[eof |-> TRUE, line |-> <<>>]}
        \cup {[eof |-> FALSE, line |-> l] :
                 l \in Lines1to4 \cup {<<>>, <<"5">>, <<"x">>, <<"1", "2">>,
                                        <<" ", "2", " ">>}}

AllFiles ==
    {[enc |-> TRUE, encBody |-> <<RowA, RowB>>, dec |-> TRUE,
      decBody |-> <<RowC>>, tail |-> FALSE],
     [enc |-> TRUE, encBody |-> <<>>, dec |-> FALSE, decBody |-> <<>>,
      tail |-> FALSE]}

InitAll ==
    /\ file \in AllFiles
    /\ present \in [mylib : BOOLEAN, openssl : {FALSE}]
    /\ argv \in SUBSET Flags
    /\ stdin \in Stdin
    /\ sets = <<>>
    /\ ran = <<>>
    /\ ossl_file = <<>>
    /\ pc = "main"
    /\ enc_df = NoFrame
    /\ dec_df = NoFrame
    /\ ossl_df = NoFrame
    /\ error = "none"
    /\ calls = <<>>
    /\ status = <<>>
    /\ out = <<>>

MenuText == "What to generate? Choose an option and press Enter:"

\* main up to the call of run_selected, all_charts.py:99-115
AllMain ==
    /\ pc = "main"
    /\ IF parse_args_fails(argv)
       THEN /\ out' = Append(out, Printed("error: not allowed with argument"))
            /\ status' = <<2>>
            /\ pc' = "exit"
            /\ UNCHANGED <<sets, error>>
       ELSE IF "--menu" \in argv
       THEN /\ out' = Append(out, Printed(MenuText))
            /\ IF stdin.eof
               THEN /\ error' = "EOFError"
                    /\ status' = <<1>>
                    /\ pc' = "crashed"
                    /\ UNCHANGED sets
               ELSE /\ sets' = interactive_menu(stdin.line)
                    /\ pc' = "run_selected"
                    /\ UNCHANGED <<error, status>>
       ELSE /\ sets' = flag_sets(argv)
            /\ pc' = "run_selected"
            /\ UNCHANGED <<out, error, status>>
    /\ UNCHANGED <<file, ossl_file, present, enc_df, dec_df, ossl_df, calls,
                   argv, stdin, ran>>

\* run_selected that starts the generators without looking for input.txt
RunSelectedCheck_nocheck ==
    /\ pc = "run_selected"
    /\ pc' = "loop"
    /\ UNCHANGED <<file, ossl_file, present, enc_df, dec_df, ossl_df, error,
                   calls, status, out, argv, stdin, sets, ran>>

\* the presence check of run_selected, all_charts.py:48-53
RunSelectedCheck ==
    /\ pc = "run_selected"
    /\ IF ~present.mylib
       THEN /\ out' = Append(out, Printed("Data file not found"))
            /\ status' = <<1>>
            /\ pc' = "exit"
       ELSE /\ pc' = "loop"
            /\ UNCHANGED <<out, status>>
    /\ UNCHANGED <<file, ossl_file, present, enc_df, dec_df, ossl_df, error,
                   calls, argv, stdin, sets, ran>>

KnownSets == {"simple", "advanced", "mega"}

\* the ways module.main() of a generator can end, _run_module_main,
\* all_charts.py:15-28.  simple_charts.main catches every Exception;
\* advanced_analysis imports charts_utils, which either loads or raises
\* ImportError; importing mega_advanced_analysis raises SyntaxError (its
\* try block at line 436 has no except clause).
Outcomes(s) ==
    CASE s = "simple" -> {"returned"}
      [] s = "advanced" -> {"returned", "ImportError"}
      [] s = "mega" -> {"SyntaxError"}
      [] OTHER -> {"ValueError"}

\* what the generator prints and writes: its banner (all_charts.py:32, 37,
\* 42), then whatever its module's main did
Generated(s, o) ==
    IF s \notin KnownSets THEN <<>>
    ELSE <<Printed("Generating " \o s)>>
            \o (IF s = "simple"
                THEN The({SimpleOutcome(r) : r \in {parse_test_results(read_bytes(file))}})
                ELSE <<>>)

\* one turn of the loop of run_selected, all_charts.py:55-63
Generate ==
    /\ pc = "loop"
    /\ Len(ran) < Len(sets)
    /\ \E s \in {sets[Len(ran) + 1]} : \E o \in Outcomes(s) :
          /\ ran' = Append(ran, [set |-> s, outcome |-> o])
          /\ out' = out \o Generated(s, o)
          /\ IF o = "returned"
             THEN UNCHANGED <<pc, error, status>>
             ELSE /\ pc' = "crashed"
                  /\ error' = o
                  /\ status' = <<1>>
    /\ UNCHANGED <<file, ossl_file, present, enc_df, dec_df, ossl_df, calls,
                   argv, stdin, sets>>

DoneText == "Done. Files created (if enough data):"

\* the end of run_selected, all_charts.py:65-68, and of the process
RunSelectedDone ==
    /\ pc = "loop"
    /\ Len(ran) = Len(sets)
    /\ out' = Append(out, Printed(DoneText))
    /\ status' = <<0>>
    /\ pc' = "exit"
    /\ UNCHANGED <<file, ossl_file, present, enc_df, dec_df, ossl_df, error,
                   calls, argv, stdin, sets, ran>>

NextAll ==
    \/ AllMain
    \/ RunSelectedCheck
    \/ Generate
    \/ RunSelectedDone

SpecAll == InitAll /\ [][NextAll]_vars

(***************************************************************************)
(* What the input file says, read off the way it was written.               *)
(***************************************************************************)
R(th, cm, cs, tm, ts) ==
    [Threads |-> th, ChunkMB |-> [m |-> cm, s |-> cs],
     Throughput |-> [m |-> tm, s |-> ts]]

\* the rows Python's re and float give for each line taken alone
KnownLines ==
    {RowA, RowB, RowC, RowTight, TwoOnLine, ZeroRow, Negative, DecimalThreads,
     NonNumeric}

LineRows(l) ==
    CASE l = RowA -> <<R(1, 4, 0, 1205, 1)>>
      [] l = RowB -> <<R(2, 4, 0, 2301, 1)>>
      [] l = RowC -> <<R(1, 4, 0, 150, 0)>>
      [] l = RowTight -> <<R(2, 5, 1, 310, 0)>>
      [] l = TwoOnLine -> <<R(1, 2, 0, 3, 0), R(4, 5, 0, 6, 0)>>
      [] l = ZeroRow -> <<R(0, 0, 0, 0, 0)>>
      [] l = Negative -> <<R(1, 4, 0, 5, 0)>>
      [] l = DecimalThreads -> <<R(5, 4, 0, 100, 0)>>
      [] OTHER -> <<>>

RECURSIVE RowsOf(_)
RowsOf(ls) ==
    IF ls = <<>> THEN <<>> ELSE LineRows(Head(ls)) \o RowsOf(Tail(ls))

\* a well-formed row, as the input format defines it
ValidRows == {RowA, RowB, RowC, RowTight}

\* rows that are not a valid <int> | <number> | <number> triplet
MalformedRows == {LoneDot, TwoDots, DecimalThreads, NonNumeric, Truncated}

\* the lines of a section: from its header to the next header or the end
EncSection(f) == f.encBody \o (IF f.dec THEN <<>> ELSE f.decBody)

DecSection(f) == f.decBody

Lines(ls) == {ls[k] : k \in 1..Len(ls)}

\* some position of the text starts a match of the row pattern
HasTriplet(s) == \E i \in 1..Len(s) : pat(s, i).ok

Finished == pc # "start"

(***************************************************************************)
(* C1.  Section independence: when one of the two section markers is        *)
(* absent, the parse raises no exception, the table of the absent section   *)
(* is empty, and the table of the other section is the one obtained when    *)
(* both markers are present with the same body for that other section.      *)
(***************************************************************************)
WithDec(f, db) == [f EXCEPT !.dec = TRUE, !.decBody = db]

WithEnc(f, eb) == [f EXCEPT !.enc = TRUE, !.encBody = eb]

C1_SectionIndependence ==
    /\ (Finished /\ file.enc /\ ~file.dec /\ file.decBody = <<>>) =>
          /\ pc = "done"
          /\ dec_df.rows = <<>>
          /\ \A db \in DecBodies :
                enc_df = extract(search(read_text(WithDec(file, db)), EncName)).df
    /\ (Finished /\ file.dec /\ ~file.enc /\ file.encBody = <<>>) =>
          /\ pc = "done"
          /\ enc_df.rows = <<>>
          /\ \A eb \in {<<>>, <<RowA>>, <<NonNumeric>>} :
                dec_df = extract(search(read_text(WithEnc(file, eb)), DecName)).df

(***************************************************************************)
(* C2.  Malformed rows never abort parsing: in a section made of valid and  *)
(* malformed rows, a malformed row contributes no row and raises no         *)
(* exception, and the valid rows, those after it included, are returned.    *)
(***************************************************************************)
RECURSIVE ValidOnly(_)
ValidOnly(ls) ==
    IF ls = <<>> THEN <<>>
    ELSE (IF Head(ls) \in ValidRows THEN LineRows(Head(ls)) ELSE <<>>)
             \o ValidOnly(Tail(ls))

C2_MalformedRowsSkipped ==
    (/\ Finished
     /\ file.enc
     /\ Lines(EncSection(file)) \subseteq (ValidRows \cup MalformedRows)
     /\ Lines(EncSection(file)) \cap MalformedRows # {})
        => /\ error # "ValueError"
           /\ pc = "done" => enc_df.rows = ValidOnly(EncSection(file))

(***************************************************************************)
(* C3.  A section whose marker is absent, or whose body holds no matching   *)
(* triplet, gives an empty table and is never the cause of an exception:    *)
(* when the parse returns, the table of that section is empty, and when it  *)
(* raises, the other section is present and holds a field float() rejects.  *)
(***************************************************************************)
EncQuiet == ~file.enc \/ ~HasTriplet(Join(EncSection(file)))

DecQuiet == ~file.dec \/ ~HasTriplet(Join(DecSection(file)))

BadFloatLines == {LoneDot, TwoDots}

C4_SectionExtent ==
    pc = "done" =>
        /\ (file.enc /\ Lines(EncSection(file)) \subseteq (KnownLines \cup {Note}))
              => enc_df.rows = RowsOf(EncSection(file))
        /\ (file.dec /\ Lines(DecSection(file)) \subseteq (KnownLines \cup {Note}))
              => dec_df.rows = RowsOf(DecSection(file))

(***************************************************************************)
(* C5.  Row count: when both markers are present with at least one valid    *)
(* row each, the parse returns two non-empty tables whose lengths add up to *)
(* the number of lines of the two sections that match the row pattern.      *)
(* (Stated for sections without a field that float() rejects.)              *)
(***************************************************************************)
MatchingLines(ls) == Cardinality({k \in 1..Len(ls) : HasTriplet(ls[k])})

C5_RowCount ==
    (/\ Finished
     /\ file.enc /\ Lines(EncSection(file)) \cap ValidRows # {}
     /\ file.dec /\ Lines(DecSection(file)) \cap ValidRows # {}
     /\ Lines(EncSection(file) \o DecSection(file)) \cap BadFloatLines = {})
        => /\ pc = "done"
           /\ enc_df.rows # <<>>
           /\ dec_df.rows # <<>>
           /\ Len(enc_df.rows) + Len(dec_df.rows)
                 = MatchingLines(EncSection(file)) + MatchingLines(DecSection(file))

(***************************************************************************)
(* C6.  Encounter order: every occurrence of the row pattern in a section   *)
(* is extracted, and the i-th row of the table comes from the i-th          *)
(* occurrence, with its three fields in the order written.                  *)
(***************************************************************************)
C6_EncounterOrder ==
    pc = "done" =>
        /\ (file.enc /\ Lines(EncSection(file)) \subseteq KnownLines)
              => enc_df.rows = RowsOf(EncSection(file))
        /\ (file.dec /\ Lines(DecSection(file)) \subseteq KnownLines)
              => dec_df.rows = RowsOf(DecSection(file))

\* the two-section example of the specification
C6_Witness ==
    /\ pc = "done"
    /\ file.enc /\ file.encBody = <<RowA, RowB>>
    /\ file.dec /\ file.decBody = <<RowC>>
    /\ enc_df.rows = <<R(1, 4, 0, 1205, 1), R(2, 4, 0, 2301, 1)>>
    /\ dec_df.rows = <<R(1, 4, 0, 150, 0)>>

(***************************************************************************)
(* C7.  Data-model invariant, as claimed: every returned row has            *)
(* threads >= 1, chunk_size_mb > 0 and throughput_mb_s >= 0.                *)
(***************************************************************************)
AllRows == Lines(enc_df.rows) \cup Lines(dec_df.rows)

C7_DataModel ==
    pc = "done" =>
        \A r \in AllRows : r.Threads >= 1 /\ r.ChunkMB.m > 0 /\ r.Throughput.m >= 0

(***************************************************************************)
(* C7, amended.  Every returned row has threads >= 0, chunk_size_mb >= 0    *)
(* and throughput_mb_s >= 0: a row written with zeros is returned with      *)
(* them, and a minus sign is never part of a field.                         *)
(***************************************************************************)
C7_NonNegative ==
    pc = "done" =>
        /\ \A r \in AllRows :
              r.Threads >= 0 /\ r.ChunkMB.m >= 0 /\ r.Throughput.m >= 0
        /\ (file.enc /\ EncSection(file) = <<ZeroRow>>)
              => enc_df.rows = <<R(0, 0, 0, 0, 0)>>
        /\ (file.enc /\ EncSection(file) = <<Negative>>)
              => enc_df.rows = <<R(1, 4, 0, 5, 0)>>

C7_Witness ==
    /\ pc = "done"
    /\ file.enc /\ EncSection(file) = <<ZeroRow>>
    /\ Len(enc_df.rows) = 1
    /\ enc_df.rows[1].Threads = 0
    /\ enc_df.rows[1].ChunkMB.m = 0

(***************************************************************************)
(* C8.  Field shapes: a row whose chunk size and throughput are written as  *)
(* integers or decimals, with any number of spaces around the pipes, gives  *)
(* exactly one row with the values written; a line that matches the row     *)
(* pattern nowhere gives no row.                                            *)
(***************************************************************************)
C8_FieldShapes ==
    (pc = "done" /\ file.enc) =>
        /\ \A th \in ThreadSpellings, ch \in NumberSpellings,
              thr \in NumberSpellings, n \in 0..MaxPad :
              EncSection(file) = <<WriteRow(th, ch, thr, n)>>
                 => enc_df.rows = <<[Threads |-> th.val, ChunkMB |-> ch.val,
                                     Throughput |-> thr.val]>>
        /\ EncSection(file) = <<RowTight>> => enc_df.rows = <<R(2, 5, 1, 310, 0)>>
        /\ EncSection(file) = <<NonNumeric>> => enc_df.rows = <<>>

C8_Witness ==
    /\ pc = "done"
    /\ file.enc /\ EncSection(file) = <<RowTight>>
    /\ enc_df.rows = <<R(2, 5, 1, 310, 0)>>

RECURSIVE IntStr(_)
IntStr(n) ==
    IF n < 10 THEN <<DigitChars[n + 1]>>
    ELSE IntStr(n \div 10) \o <<DigitChars[(n % 10) + 1]>>

Zeros(n) == [k \in 1..n |-> "0"]

FloatStr(v) ==
    LET whole == v.m \div (10 ^ v.s)
        frac == v.m % (10 ^ v.s)
        fs == IF v.s = 0 THEN <<"0">>
              ELSE Zeros(v.s - Len(IntStr(frac))) \o IntStr(frac)
    IN IntStr(whole) \o <<".">> \o fs

RowStr(r) ==
    IntStr(r.Threads) \o <<" ", "|", " ">> \o FloatStr(r.ChunkMB)
        \o <<" ", "|", " ">> \o FloatStr(r.Throughput)

WriteBack(enc, dec) ==
    Join(<<EncHeader>> \o [k \in 1..Len(enc.rows) |-> RowStr(enc.rows[k])]
         \o <<DecHeader>> \o [k \in 1..Len(dec.rows) |-> RowStr(dec.rows[k])])

(***************************************************************************)
(* C10.  Round trip: writing the returned tables back, each row as a line   *)
(* under its section marker in table order, and parsing that text returns   *)
(* tables with the same rows in the same order.                             *)
(***************************************************************************)
C10_RoundTrip ==
    pc = "done" =>
        LET again == parse_mylib_results(WriteBack(enc_df, dec_df)) IN
        /\ ~again.raised
        /\ again.enc.rows = enc_df.rows
        /\ again.dec.rows = dec_df.rows

C10_Witness ==
    /\ pc = "done"
    /\ Len(enc_df.rows) = 2
    /\ Len(dec_df.rows) = 1
    /\ enc_df.rows[1] # enc_df.rows[2]
    /\ enc_df.rows[1].Throughput.s > 0
    /\ parse_mylib_results(WriteBack(enc_df, dec_df)).enc.rows = enc_df.rows

(***************************************************************************)
(* C11.  Duplicates preserved: the rows of a section that share a           *)
(* (threads, chunk_size_mb) pair are all in the section's table, each with  *)
(* its own throughput, in encounter order; nothing is merged or dropped.    *)
(***************************************************************************)
ByPair(rows, th, ch) ==
    SelectSeq(rows, LAMBDA r : r.Threads = th /\ r.ChunkMB = ch)

SamePairs(rows, expected) ==
    /\ Len(rows) = Len(expected)
    /\ \A k \in 1..Len(expected) :
          ByPair(rows, expected[k].Threads, expected[k].ChunkMB)
             = ByPair(expected, expected[k].Threads, expected[k].ChunkMB)

C11_DuplicatesPreserved ==
    pc = "done" =>
        /\ (file.enc /\ Lines(EncSection(file)) \subseteq KnownLines)
              => SamePairs(enc_df.rows, RowsOf(EncSection(file)))
        /\ (file.dec /\ Lines(DecSection(file)) \subseteq KnownLines)
              => SamePairs(dec_df.rows, RowsOf(DecSection(file)))

\* two lines for the pair (1, 4) with different throughputs
C11_Witness ==
    /\ pc = "done"
    /\ file.enc /\ file.encBody = <<RowA, RowC>>
    /\ ByPair(enc_df.rows, 1, Normal(4, 0))
          = <<R(1, 4, 0, 1205, 1), R(1, 4, 0, 150, 0)>>

(***************************************************************************)
(* C12.  Column contract, as claimed: every table the parser returns, the   *)
(* empty ones included, carries the columns Threads, ChunkMB, Throughput.   *)
(***************************************************************************)
C12_ColumnContract ==
    pc = "done" => /\ enc_df.columns = Columns
                   /\ dec_df.columns = Columns

(***************************************************************************)
(* What the OpenSSL log says, read off line by line: the sizes of a header  *)
(* line, the values of a data line in MB/s (value / 1000), and the row a    *)
(* free-text line stands for, (ops * N) / S / 1000000.                      *)
(***************************************************************************)
Q(n, d) == [n |-> n, d |-> d]

HeaderSizes(l) ==
    CASE l \in {HdrSp, Hdr} -> <<16, 64>>
      [] l = HdrRev -> <<64, 16>>
      [] l = HdrDup -> <<16, 16>>
      [] l = Hdr3 -> <<16, 64, 256>>

\* data lines whose label is AES-128-GCM and whose values are numbers
GoodData == {RowLine, Row1, Row3}

DataValues(l) ==
    CASE l = RowLine -> <<Q(5193629, 50000), Q(205, 1)>>
      [] l = Row1 -> <<Q(1, 200)>>
      [] l = Row3 -> <<Q(1, 500), Q(1, 1000), Q(7, 1000)>>

\* free-text lines with a positive, well-formed number of seconds
GoodFree == {Free16, Free64, FreeUpper, FreeOther}

FreePair(l) ==
    CASE l \in {Free16, FreeOther} -> [BlockBytes |-> 16, ThroughputMBps |-> Q(3, 1250)]
      [] l = Free64 -> [BlockBytes |-> 64, ThroughputMBps |-> Q(1, 3125)]
      [] l = FreeUpper -> [BlockBytes |-> 8, ThroughputMBps |-> Q(1, 100000)]

Pair(r) == [BlockBytes |-> r.BlockBytes, ThroughputMBps |-> r.ThroughputMBps]

Pairs(rows) == [k \in 1..Len(rows) |-> Pair(rows[k])]

\* the header sizes zipped with the data values, position by position
Zip(h, d) ==
    [i \in 1..Min2(Len(HeaderSizes(h)), Len(DataValues(d))) |->
        [BlockBytes |-> HeaderSizes(h)[i], ThroughputMBps |-> DataValues(d)[i]]]

Count(seq, x) == Cardinality({k \in 1..Len(seq) : seq[k] = x})

\* a and b hold the same elements the same number of times
SameBag(a, b) ==
    /\ Len(a) = Len(b)
    /\ \A k \in 1..Len(a) : Count(a, a[k]) = Count(b, a[k])

Ascending(rows) ==
    \A k \in 1..(Len(rows) - 1) : rows[k].BlockBytes <= rows[k + 1].BlockBytes

HeaderAtLine(f) == {k \in 1..Len(f) : f[k] \in HeaderLines}

DataAtLine(f) == {k \in 1..Len(f) : f[k] \in GoodData}

FreeAtLine(f) == {k \in 1..Len(f) : f[k] \in FreeLines}

\* the log holds one header line and one data line and no other line that
\* starts like either
OneHeaderOneData(f) ==
    /\ Cardinality(HeaderAtLine(f)) = 1
    /\ Cardinality(DataAtLine(f)) = 1
    /\ \A k \in 1..Len(f) : f[k] \notin {RowBad, RowOther}

TheHeader(f) == f[CHOOSE k \in HeaderAtLine(f) : TRUE]

TheData(f) == f[CHOOSE k \in DataAtLine(f) : TRUE]

\* the header line ends in whitespace, or a blank line or the end of the
\* log follows it
HeaderEndsInSpace(f) ==
    \A k \in HeaderAtLine(f) : f[k] # Hdr \/ k = Len(f) \/ f[k + 1] = Blank

FinishedOssl == pc # "start"

(***************************************************************************)
(* C13.  Secondary format (a), as claimed: a header line 'type N1 bytes     *)
(* N2 bytes ...' immediately followed by a data line, neither with          *)
(* trailing whitespace, is parsed on the structured path into one row per   *)
(* header size; 'type 16 bytes 64 bytes' and 'AES-128-GCM 103872.58k        *)
(* 205000.00k' give 16 -> 103.87258 and 64 -> 205.0.                        *)
(***************************************************************************)
C13_FormatRecognised ==
    (FinishedOssl /\ ossl_file = <<Hdr, RowLine>>)
        => /\ pc = "done"
           /\ Pairs(ossl_df.rows)
                = <<[BlockBytes |-> 16, ThroughputMBps |-> Q(5193629, 50000)],
                    [BlockBytes |-> 64, ThroughputMBps |-> Q(205, 1)]>>

(***************************************************************************)
(* C14.  Positional zip: on the structured path, with m header sizes and v  *)
(* values, the table has min(m, v) rows and pairs the i-th size with the    *)
(* i-th value divided by 1000; the surplus is dropped, no pairing shifts.   *)
(***************************************************************************)
C14_PositionalZip ==
    (pc = "done" /\ OneHeaderOneData(ossl_file) /\ HeaderEndsInSpace(ossl_file))
        => /\ Len(ossl_df.rows)
                = Min2(Len(HeaderSizes(TheHeader(ossl_file))),
                       Len(DataValues(TheData(ossl_file))))
           /\ SameBag(Pairs(ossl_df.rows),
                      Zip(TheHeader(ossl_file), TheData(ossl_file)))

\* sizes written in descending order, one value more than sizes
C14_Witness ==
    /\ pc = "done"
    /\ ossl_file = <<HdrRev, Row3>>
    /\ Pairs(ossl_df.rows)
         = <<[BlockBytes |-> 16, ThroughputMBps |-> Q(1, 1000)],
             [BlockBytes |-> 64, ThroughputMBps |-> Q(1, 500)]>>

(***************************************************************************)
(* C15.  Label, as claimed: every returned row carries the label token      *)
(* that starts its data line, "AES-128-GCM".                                *)
(***************************************************************************)
C15_LabelFromDataLine ==
    pc = "done" =>
        \A k \in 1..Len(ossl_df.rows) : ossl_df.rows[k].Label = "AES-128-GCM"

\* C15 amended: every returned row, of either path, carries the fixed
\* label "OpenSSL AES-128-GCM"
C15_FixedLabel ==
    pc = "done" =>
        \A k \in 1..Len(ossl_df.rows) :
            ossl_df.rows[k].Label = "OpenSSL AES-128-GCM"

C15_Witness ==
    /\ pc = "done"
    /\ ossl_file = <<HdrSp, RowLine>>
    /\ Len(ossl_df.rows) = 2
    /\ ossl_df.rows[1].Label = "OpenSSL AES-128-GCM"

(***************************************************************************)
(* C16.  Fallback, as claimed: without the header/row shape, every          *)
(* free-text line 'on N size blocks: ops label ops in Ss', whatever its     *)
(* label, gives a row with BlockBytes N and throughput ops * N / S / 10^6,  *)
(* and the rows are in ascending order of BlockBytes.                       *)
(***************************************************************************)
\* the block size N a free-text line names
FreeBlock(l) ==
    CASE l \in {Free16, FreeOther, FreeZero} -> 16
      [] l = Free64 -> 64
      [] l = FreeUpper -> 8

FreeBlocks(f) ==
    LET lines == SelectSeq(f, LAMBDA l : l \in FreeLines) IN
    [k \in 1..Len(lines) |-> FreeBlock(lines[k])]

C16_Fallback ==
    (/\ FinishedOssl
     /\ HeaderAtLine(ossl_file) = {} \/ DataAtLine(ossl_file) = {}
     /\ \A k \in 1..Len(ossl_file) : ossl_file[k] \notin {RowBad, FreeBad})
        => /\ pc = "done"
           /\ SameBag([k \in 1..Len(ossl_df.rows) |-> ossl_df.rows[k].BlockBytes],
                      FreeBlocks(ossl_file))
           /\ \A k \in 1..Len(ossl_file) :
                 ossl_file[k] \in GoodFree
                    => \E j \in 1..Len(ossl_df.rows) :
                          Pair(ossl_df.rows[j]) = FreePair(ossl_file[k])
           /\ Ascending(ossl_df.rows)

(***************************************************************************)
(* C17.  Precedence, as claimed: with a header line and a data line both    *)
(* present every row comes from them and the free-text lines add nothing;   *)
(* the free-text lines are used exactly when one of the two is absent.      *)
(***************************************************************************)
C17_Precedence ==
    (/\ FinishedOssl
     /\ OneHeaderOneData(ossl_file)
     /\ \A k \in 1..Len(ossl_file) : ossl_file[k] \notin {FreeZero, FreeBad})
        => /\ pc = "done"
           /\ SameBag(Pairs(ossl_df.rows),
                      Zip(TheHeader(ossl_file), TheData(ossl_file)))

(***************************************************************************)
(* C18.  Malformed secondary input: a text with neither the header/row      *)
(* shape nor a free-text 'size blocks' line gives an empty table, and no    *)
(* exception.                                                               *)
(***************************************************************************)
C18_MalformedGivesEmpty ==
    (/\ FinishedOssl
     /\ FreeAtLine(ossl_file) = {}
     /\ \/ HeaderAtLine(ossl_file) = {}
        \/ \A k \in 1..Len(ossl_file) : ossl_file[k] \notin DataLines)
        => /\ pc = "done"
           /\ error = "none"
           /\ ossl_df.rows = <<>>

\* a header line without a data line
C18_Witness ==
    /\ pc = "done"
    /\ ossl_file = <<HdrSp, Garbage>>
    /\ ossl_df.rows = <<>>

(***************************************************************************)
(* C19.  Missing primary input in charts.main: when the library input path  *)
(* does not exist, main returns status 1 without parsing and without        *)
(* writing a chart, and no exception escapes; status 1 is returned for no   *)
(* other outcome: an input that exists but yields an empty table returns 2, *)
(* success returns 0.                                                       *)
(***************************************************************************)
Ended == pc \in {"exit", "crashed"}

Charts == SelectSeq(out, LAMBDA o : o.kind = "chart")

C19_MissingInputStatus ==
    /\ (Ended /\ ~present.mylib)
          => /\ pc = "exit"
             /\ status = <<1>>
             /\ calls = <<>>
             /\ Charts = <<>>
    /\ (pc = "exit" /\ present.mylib)
          => /\ status \in {<<0>>, <<2>>}
             /\ status = <<2>> <=> (Empty(enc_df) \/ Empty(dec_df))

C19_Witness ==
    /\ pc = "exit"
    /\ ~present.mylib
    /\ status = <<1>>
    /\ out = <<Printed("[error] CottonCrypto input not found")>>

(***************************************************************************)
(* C20.  Missing input in simple_charts.main, as claimed: when input.txt    *)
(* does not exist, main prints the not-found message and no other, saves    *)
(* no chart, lets no exception escape, and the process exits with a         *)
(* status other than 0.                                                     *)
(***************************************************************************)
C20_MissingInputLegacy ==
    (Ended /\ ~present.mylib)
        => /\ pc = "exit"
           /\ out = <<Printed(NotFoundMessage)>>
           /\ status # <<0>>

(***************************************************************************)
(* Claims about charts.main as a consumer of the tables.                    *)
(***************************************************************************)
LibraryCharts ==
    {"library_performance.png", "advanced_performance_analysis.png",
     "mega_performance_analysis.png"}

Has(o) == \E i \in 1..Len(out) : out[i] = o

NoChart(items) == \A i \in 1..Len(items) : items[i].kind # "chart"

C22_ReadErrorsPropagate ==
    /\ pc = "done" => ~HasInvalid(read_bytes(file))
    /\ (Len(calls) = 2 /\ ~calls[2].raised) => ~HasInvalid(read_bytes(file))

\* C23: tables are read-only for consumers.  Whatever part of charts.main
\* has run after the parse (the three library chart builders, the OpenSSL
\* comparison, the summary), the encryption and the decryption table are
\* the tables parse_mylib_results returned, row for row and in the same
\* order, and the OpenSSL table is one parse_openssl_results returns for
\* the log.
C23_TablesReadOnly ==
    /\ (Len(calls) = 1 /\ ~calls[1].raised)
          => /\ enc_df = calls[1].enc
             /\ dec_df = calls[1].dec
             /\ enc_df = parse_mylib_results(read_text(file)).enc
             /\ dec_df = parse_mylib_results(read_text(file)).dec
    /\ Has(Printed("Loaded OpenSSL data"))
          => ossl_df \in {r.df : r \in {x \in parse_openssl_results(Join(ossl_file)) :
                                            ~x.raised}}

\* all four chart builders and the summary ran on tables with rows
C23_Witness ==
    /\ pc = "exit"
    /\ status = <<0>>
    /\ Len(Charts) = 4
    /\ Has(Printed("OpenSSL best"))
    /\ Len(enc_df.rows) = 2
    /\ Len(ossl_df.rows) = 2

\* C24: optional reference input.  When the library input parses to two
\* non-empty tables, charts.main ends with status 0 whether or not the
\* OpenSSL log exists and whatever it holds; without the log neither
\* parse_openssl_results nor plot_openssl_comparison runs; and the library
\* charts come first, in the order four-panel, advanced, mega.
C24_OptionalReference ==
    (Len(calls) = 1 /\ ~calls[1].raised
        /\ ~Empty(calls[1].enc) /\ ~Empty(calls[1].dec))
    => /\ Ended => status = <<0>>
       /\ ~present.openssl
             => /\ ossl_df = NoFrame
                /\ ~Has(Printed("Loaded OpenSSL data"))
                /\ ~Has(Written("openssl_comparison.png"))
       /\ pc \in {"reference", "summary", "exit"}
             => /\ Len(Charts) >= 3
                /\ SubSeq(Charts, 1, 3) =
                      <<Written("library_performance.png"),
                        Written("advanced_performance_analysis.png"),
                        Written("mega_performance_analysis.png")>>

(***************************************************************************)
(* Claims about the launcher all_charts.py.                                 *)
(***************************************************************************)
\* main reached its call of run_selected
RunSelectedCalled == pc # "main" /\ status # <<2>> /\ error # "EOFError"

\* the typed line without the blanks around it
Choice(line) == IF line = <<" ", "2", " ">> THEN <<"2">> ELSE line

Banners == SelectSeq(out, LAMBDA o : o.kind = "print" /\ o.text \in
                {"Generating simple", "Generating advanced", "Generating mega"})

\* C25: chart-set selection.  The list main passes to run_selected is one
\* of [simple], [advanced], [mega] and [simple, advanced, mega]: without
\* --menu it is the single set whose flag is given and all three for --all
\* or no flag; with --menu it is the set for the choices 1, 2, 3, all three
\* for 4 and for any other line.  No run raises the 'Unknown set' ValueError.
C25_ChartSetSelection ==
    /\ RunSelectedCalled =>
          /\ sets \in {<<"simple">>, <<"advanced">>, <<"mega">>,
                       <<"simple", "advanced", "mega">>}
          /\ "--menu" \notin argv =>
                /\ argv = {"--simple"} => sets = <<"simple">>
                /\ argv = {"--advanced"} => sets = <<"advanced">>
                /\ argv = {"--mega"} => sets = <<"mega">>
                /\ argv \in {{}, {"--all"}} => sets = <<"simple", "advanced", "mega">>
                /\ argv \in {{}, {"--simple"}, {"--advanced"}, {"--mega"}, {"--all"}}
          /\ "--menu" \in argv =>
                /\ ~stdin.eof
                /\ Choice(stdin.line) = <<"1">> => sets = <<"simple">>
                /\ Choice(stdin.line) = <<"2">> => sets = <<"advanced">>
                /\ Choice(stdin.line) = <<"3">> => sets = <<"mega">>
                /\ Choice(stdin.line) \notin {<<"1">>, <<"2">>, <<"3">>}
                      => sets = <<"simple", "advanced", "mega">>
    /\ error # "ValueError"
    /\ \A k \in 1..Len(ran) : ran[k].set \in {"simple", "advanced", "mega"}

\* the menu was answered with a line that is none of 1-4 and run_selected
\* went through the list it got
C25_Witness ==
    /\ "--menu" \in argv
    /\ ~stdin.eof
    /\ stdin.line = <<"x">>
    /\ sets = <<"simple", "advanced", "mega">>
    /\ Len(ran) = 3

\* C26: ordering in run_selected.  Without input.txt the process ends with
\* status 1 and no generator has run; otherwise the generators started so
\* far are the first entries of the list, in its order, each one but the
\* last has returned, and 'Done' is printed last, after every generator of
\* the list returned.
C26_RunSelectedOrder ==
    /\ (RunSelectedCalled /\ pc # "run_selected" /\ ~present.mylib)
          => /\ pc = "exit"
             /\ status = <<1>>
             /\ ran = <<>>
             /\ Banners = <<>>
    /\ Len(ran) <= Len(sets)
    /\ \A k \in 1..Len(ran) :
          /\ ran[k].set = sets[k]
          /\ k < Len(ran) => ran[k].outcome = "returned"
    /\ Banners = [k \in 1..Len(ran) |-> Printed("Generating " \o sets[k])]
    /\ Has(Printed(DoneText))
          => /\ Len(ran) = Len(sets)
             /\ \A k \in 1..Len(ran) : ran[k].outcome = "returned"
             /\ out[Len(out)] = Printed(DoneText)
             /\ status = <<0>>

\* three generators were started one after the other
C26_Witness ==
    /\ present.mylib
    /\ Len(ran) = 3
    /\ ran[1] = [set |-> "simple", outcome |-> "returned"]
    /\ ran[2] = [set |-> "advanced", outcome |-> "returned"]
    /\ ran[3].set = "mega"

(***************************************************************************)
(* Claims about the two primary parsers on the same input.                  *)
(***************************************************************************)
\* every chunk size of the file is written as an integer
IntegerChunks(ls) == RowTight \notin Lines(ls)

\* C27: the two primary parsers agree.  For every input whose chunk sizes
\* are written as integers, parse_test_results and parse_mylib_results
\* both return or both raise, and when they return their encryption tables
\* have the same rows in the same order and so have their decryption
\* tables (so one is empty exactly when the other is).
C27_ParsersAgree ==
    (Len(calls) = 2 /\ IntegerChunks(file.lines))
    => /\ calls[1].raised = calls[2].raised
       /\ calls[1].enc.rows = calls[2].enc.rows
       /\ calls[1].dec.rows = calls[2].dec.rows

\* the lines between the first line of ls that is one of markers and the
\* next line holding '==' (a header or a note)
HasDelimiter(l) == \E i \in 1..Len(l) : LitAt(l, i, Lookahead)

FirstSection(ls, markers) ==
    LET at == {i \in 1..Len(ls) : ls[i] \in markers} IN
    IF at = {} THEN <<>>
    ELSE LET i == SetMin(at)
             stop == SetMin({j \in (i + 1)..Len(ls) : HasDelimiter(ls[j])}
                               \cup {Len(ls) + 1})
         IN SubSeq(ls, i + 1, stop - 1)

Occurrences(ls, markers) == Cardinality({i \in 1..Len(ls) : ls[i] \in markers})

\* C28: first marker occurrence only.  Also when a marker occurs more than
\* once, the table of its operation holds exactly the rows of the lines
\* between the first occurrence and the next line with '=='; the rows
\* under a later occurrence are in no table.  This holds for both parsers,
\* each with the markers it recognises.
C28_FirstOccurrenceOnly ==
    /\ pc = "done"
          => /\ enc_df.rows = RowsOf(FirstSection(file.lines, {EncHeader, EncTight}))
             /\ dec_df.rows = RowsOf(FirstSection(file.lines, {DecHeader}))
    /\ (Len(calls) = 2 /\ ~calls[2].raised /\ IntegerChunks(file.lines))
          => /\ calls[2].enc.rows = RowsOf(FirstSection(file.lines, {EncHeader}))
             /\ calls[2].dec.rows = RowsOf(FirstSection(file.lines, {DecHeader}))

\* the encryption marker occurs twice, with different rows under it
C28_Witness ==
    /\ Len(calls) = 2
    /\ file.lines = <<EncHeader, RowA, DecHeader, RowB, EncHeader, Note, RowC>>
    /\ Occurrences(file.lines, {EncHeader}) = 2
    /\ Len(enc_df.rows) = 1
    /\ Len(calls[2].enc.rows) = 1

(***************************************************************************)
(* Claims about the outcome of parse_openssl_results on any log.            *)
(***************************************************************************)
\* C29: parse_openssl_results is total on text.  Whatever the log holds,
\* free-text lines with 0 seconds or a malformed number and data lines
\* with malformed k-values included, the call returns a table and raises
\* no exception.
C29_Total == FinishedOssl => (pc = "done" /\ error = "none")

\* C30: sorted secondary output.  Every table parse_openssl_results
\* returns, on either path, has its rows in non-decreasing BlockBytes
\* order, also when the header sizes are written in another order; on the
\* structured path each size still carries the value it was zipped with.
C30_SortedOutput ==
    pc = "done"
    => /\ Ascending(ossl_df.rows)
       /\ (OneHeaderOneData(ossl_file) /\ HeaderEndsInSpace(ossl_file))
             => SameBag(Pairs(ossl_df.rows),
                        Zip(TheHeader(ossl_file), TheData(ossl_file)))

\* sizes written in descending order: the rows come back ascending, each
\* size with its own value
C30_Witness ==
    /\ pc = "done"
    /\ ossl_file = <<HdrRev, RowLine>>
    /\ Pairs(ossl_df.rows)
         = <<[BlockBytes |-> 16, ThroughputMBps |-> Q(205, 1)],
             [BlockBytes |-> 64, ThroughputMBps |-> Q(5193629, 50000)]>>

====
